---- MODULE Spec2Model ----
(***************************************************************************)
(* Class-scheduling conflict detection and instructor workload of          *)
(* Schedium-BE: SchedulingService.validate_schedule / create / update /    *)
(* delete of ClassSchedule rows over a transactional store with the three  *)
(* uniqueness constraints of the class_schedule table.                     *)
(*                                                                         *)
(* Each HTTP request runs in its own database session.  A request reads    *)
(* (the conflict check) in one step and writes (add/commit) in a later     *)
(* step, so that other requests can commit in between.                     *)
(*                                                                         *)
(* hour_count is a DECIMAL(10,2) column; it is kept here as an integer     *)
(* number of hundredths of an hour.                                        *)
(*                                                                         *)
(* The read-only calls (POST /class-schedules/validate and                 *)
(* GET /instructors/{id}/workload) and PUT /instructors/{id} take one step *)
(* each; the replies of the read-only calls are kept on record.            *)
(*                                                                         *)
(* The catalogue operations (time blocks, slots, quarters, student groups, *)
(* instructors, classrooms) act on their own tables.  They take one step   *)
(* each, except POST /quarters, whose overlap check and insert are two     *)
(* steps.  Dates are day numbers and clock times are minutes of the day.   *)
(***************************************************************************)
EXTENDS Integers, FiniteSets, Sequences, TLC

\* ------------------------------------------------------------------ bounds
\* Number of concurrently running requests (database sessions).
NumReq == 2
\* Largest class_schedule_id the autoincrement counter hands out.
MaxId == 2
\* Largest primary key the time_block and day_time_block counters hand out.
MaxKey == 3
\* Largest quarter_id the quarter counter hands out.
MaxQuarterId == 4

\* ---------------------------------------------------------- reference data
\* The reference entities stored at the start (primary keys start at 1:
\* autoincrement).
Quarters == {1, 2}
DayTimeBlocks == {1, 2}
Groups == {1, 2}
Instructors == {1, 2}
Classrooms == {1, 2}
Subjects == {"Algebra", "Geometry"}

\* Ids that no table holds: 0 (which Python treats as false) and 9.
BadIds == {0, 9}

\* The seven stored days.
Days == 1 .. 7

\* Stored contracts and their Contract.hour_limit; contract 3 has no hour
\* limit (hour_limit is NULL, written 0).
Contracts == {1, 2, 3}
contract_hour_limit(c) == CASE c = 1 -> 2 [] c = 2 -> 40 [] OTHER -> 0

\* Instructor.email values (a unique column).
Emails == {"a@sena.edu", "b@sena.edu", "c@sena.edu"}

\* Classroom.capacity and StudentGroup.capacity.
classroom_capacity(c) == IF c = 1 THEN 30 ELSE 20
group_capacity(g) == IF g = 1 THEN 25 ELSE 20

IdFields == {"quarter_id", "day_time_block_id", "group_id",
             "instructor_id", "classroom_id"}

Req == 1 .. NumReq

\* ------------------------------------------------------------------- state
VARIABLES
    rows,        \* the class_schedule table: a set of row records
    next_id,     \* the table's autoincrement counter
    hour_count,  \* instructor.hour_count, in hundredths of an hour
    req,         \* per request: position, input, pending changes, response
    instructors, \* the instructor table: contract_id (0 is NULL) and email
    validate_reply,  \* the reply of the latest POST /class-schedules/validate
    workload_reply,  \* the reply of the latest GET /instructors/{id}/workload
    time_block,      \* the time_block table: start_time and end_time
    day_time_block,  \* the day_time_block table: the slots
    quarter,         \* the quarter table: start_date and end_date
    student_group,   \* the student_group table: the active flag
    instructor,      \* the ids of the stored instructor rows
    classroom,       \* the ids of the stored classroom rows
    autoinc,         \* autoincrement counters of time_block, day_time_block, quarter
    quarter_req,     \* POST /quarters requests between their check and their insert
    reply            \* the reply of the latest catalogue operation

catalog == <<time_block, day_time_block, quarter, student_group, instructor,
            classroom, autoinc, quarter_req, reply>>

vars == <<rows, next_id, hour_count, req, instructors, validate_reply,
         workload_reply, time_block, day_time_block, quarter, student_group,
         instructor, classroom, autoinc, quarter_req, reply>>

\* The table a foreign-key column of class_schedule references.
Referenced(f) ==
    CASE f = "quarter_id" -> {q.quarter_id : q \in quarter}
      [] f = "day_time_block_id" -> {s.day_time_block_id : s \in day_time_block}
      [] f = "group_id" -> {g.group_id : g \in student_group}
      [] f = "instructor_id" -> instructor
      [] f = "classroom_id" -> classroom

\* TimeBlock.duration_minutes of the time block of a stored slot.
duration_minutes(dtb) ==
    LET slot == CHOOSE s \in day_time_block : s.day_time_block_id = dtb
        block == CHOOSE b \in time_block : b.time_block_id = slot.time_block_id
    IN  block.end_time - block.start_time

NoCand == [subject |-> "", quarter_id |-> 0, day_time_block_id |-> 0,
           group_id |-> 0, instructor_id |-> 0, classroom_id |-> 0]
\* A ClassScheduleUpdate: the fields the caller set, and their values.
NoPatch == [set |-> {}, val |-> NoCand]
NoResponse == [status |-> 0, code |-> "", detail |-> ""]

IdleReq == [pc |-> "idle", op |-> "", cand |-> NoCand, id |-> 0,
            patch |-> NoPatch, response |-> NoResponse]

\* No catalogue operation answered yet.  a, b and c are the operation's
\* arguments (0 where it has none), result the ids it returned.
NoReply == [op |-> "", a |-> 0, b |-> 0, c |-> 0, status |-> 0, code |-> "",
            result |-> {}]

\* No validate call, no workload call answered yet.
NoValidation == [cand |-> NoCand, is_valid |-> FALSE, conflicts |-> <<>>,
                 warnings |-> <<>>]
NoWorkload == [status |-> 0, instructor_id |-> 0, total_hours |-> 0,
               contract_limit |-> 0, workload_status |-> ""]

\* Time block 1 is 08:00-10:00 and time block 2 is 09:30-11:00; slots 1 and 2
\* put them on day 1.  Quarter 1 runs from date 1 to date 2, quarter 2 from
\* date 4 to date 5.
InitCatalog ==
    /\ time_block = {[time_block_id |-> 1, start_time |-> 480, end_time |-> 600],
                     [time_block_id |-> 2, start_time |-> 570, end_time |-> 660]}
    /\ day_time_block = {[day_time_block_id |-> d, day_id |-> 1, time_block_id |-> d] :
                           d \in DayTimeBlocks}
    /\ quarter = {[quarter_id |-> 1, start_date |-> 1, end_date |-> 2],
                  [quarter_id |-> 2, start_date |-> 4, end_date |-> 5]}
    /\ student_group = {[group_id |-> g, active |-> TRUE] : g \in Groups}
    /\ instructor = Instructors
    /\ classroom = Classrooms
    /\ autoinc = [time_block |-> 3, day_time_block |-> 3, quarter |-> 3]
    /\ quarter_req = {}
    /\ reply = NoReply

\* Instructor 1 is on contract 1, instructor 2 has no contract.
Init ==
    /\ rows = {}
    /\ next_id = 1
    /\ hour_count = [i \in Instructors |-> 0]
    /\ req = [r \in Req |-> IdleReq]
    /\ instructors = [i \in Instructors |->
                        IF i = 1 THEN [contract_id |-> 1, email |-> "a@sena.edu"]
                        ELSE [contract_id |-> 0, email |-> "b@sena.edu"]]
    /\ validate_reply = NoValidation
    /\ workload_reply = NoWorkload
    /\ InitCatalog

\* instructor.contract.hour_limit; 0 when the instructor has no contract or
\* the contract has no hour limit (both are false in Python).
hour_limit(i) ==
    IF instructors[i].contract_id \in Contracts
    THEN contract_hour_limit(instructors[i].contract_id) ELSE 0

\* ------------------------------------------------------------ repositories
\* BaseRepository.get: the rows with this primary key (at most one).
get(tbl, id) == {x \in tbl : x.class_schedule_id = id}

\* Query.first() of a query without ORDER BY: the row of lowest primary key.
First(S) == CHOOSE x \in S : \A y \in S : x.class_schedule_id <= y.class_schedule_id

\* ClassScheduleRepository.check_<resource>_conflict, the rows its filter
\* selects; exclude_id = 0 stands for None (`if exclude_id:`).
conflict_query(tbl, f, resource_id, day_time_block_id, quarter_id, exclude_id) ==
    {x \in tbl : /\ x[f] = resource_id
                 /\ x.day_time_block_id = day_time_block_id
                 /\ x.quarter_id = quarter_id
                 /\ (exclude_id # 0 => x.class_schedule_id # exclude_id)}

check_instructor_conflict(tbl, instructor_id, day_time_block_id, quarter_id, exclude_id) ==
    conflict_query(tbl, "instructor_id", instructor_id, day_time_block_id,
                   quarter_id, exclude_id)

\* check_classroom_conflict that filters on the group column.
check_classroom_conflict_wrong_column(tbl, classroom_id, day_time_block_id, quarter_id, exclude_id) ==
    conflict_query(tbl, "group_id", classroom_id, day_time_block_id,
                   quarter_id, exclude_id)

check_classroom_conflict(tbl, classroom_id, day_time_block_id, quarter_id, exclude_id) ==
    conflict_query(tbl, "classroom_id", classroom_id, day_time_block_id,
                   quarter_id, exclude_id)

check_group_conflict(tbl, group_id, day_time_block_id, quarter_id, exclude_id) ==
    conflict_query(tbl, "group_id", group_id, day_time_block_id,
                   quarter_id, exclude_id)

\* ----------------------------------------------------- validate_schedule
\* ScheduleConflict whose existing_schedule_id is the id of the resource.
ScheduleConflict_resource_id(type, resource_id, existing) ==
    [conflict_type |-> type, resource_id |-> resource_id,
     existing_schedule_id |-> resource_id,
     existing_subject |-> existing.subject]

ScheduleConflict(type, resource_id, existing) ==
    [conflict_type |-> type, resource_id |-> resource_id,
     existing_schedule_id |-> existing.class_schedule_id,
     existing_subject |-> existing.subject]

ConflictList(type, resource_id, found) ==
    IF found = {} THEN <<>>
    ELSE <<ScheduleConflict(type, resource_id, First(found))>>

\* OverloadWarning that warns at the limit already.
OverloadWarning_at_limit(hc, cand) ==
    IF /\ cand.instructor_id \in Referenced("instructor_id")
       /\ hour_limit(cand.instructor_id) # 0
       /\ cand.day_time_block_id \in Referenced("day_time_block_id")
       /\ hc[cand.instructor_id] * 60 + duration_minutes(cand.day_time_block_id) * 100
            >= hour_limit(cand.instructor_id) * 6000
    THEN <<"overload">> ELSE <<>>

\* total_hours > hour_limit with total_hours = hour_count + minutes / 60,
\* both sides scaled by 6000 (hour_count is in hundredths of an hour).
OverloadWarning(hc, cand) ==
    IF /\ cand.instructor_id \in Referenced("instructor_id")
       /\ hour_limit(cand.instructor_id) # 0
       /\ cand.day_time_block_id \in Referenced("day_time_block_id")
       /\ hc[cand.instructor_id] * 60 + duration_minutes(cand.day_time_block_id) * 100
            > hour_limit(cand.instructor_id) * 6000
    THEN <<"overload">> ELSE <<>>

\* CapacityWarning that warns for a classroom as large as the group.
CapacityWarning_or_equal(cand) ==
    IF /\ cand.classroom_id \in Referenced("classroom_id")
       /\ cand.group_id \in Referenced("group_id")
       /\ classroom_capacity(cand.classroom_id) <= group_capacity(cand.group_id)
    THEN <<"capacity">> ELSE <<>>

CapacityWarning(cand) ==
    IF /\ cand.classroom_id \in Referenced("classroom_id")
       /\ cand.group_id \in Referenced("group_id")
       /\ classroom_capacity(cand.classroom_id) < group_capacity(cand.group_id)
    THEN <<"capacity">> ELSE <<>>

\* validate_schedule that returns at its first conflict.
validate_schedule_short_circuit(tbl, hc, cand) ==
    LET instructor_conflict ==
            ConflictList("instructor", cand.instructor_id,
                check_instructor_conflict(tbl, cand.instructor_id,
                    cand.day_time_block_id, cand.quarter_id, 0))
        classroom_conflict ==
            ConflictList("classroom", cand.classroom_id,
                check_classroom_conflict(tbl, cand.classroom_id,
                    cand.day_time_block_id, cand.quarter_id, 0))
        group_conflict ==
            ConflictList("group", cand.group_id,
                check_group_conflict(tbl, cand.group_id,
                    cand.day_time_block_id, cand.quarter_id, 0))
        conflicts == IF instructor_conflict # <<>> THEN instructor_conflict
                     ELSE IF classroom_conflict # <<>> THEN classroom_conflict ELSE group_conflict
    IN [is_valid |-> Len(conflicts) = 0,
        conflicts |-> conflicts,
        warnings |-> OverloadWarning(hc, cand) \o CapacityWarning(cand)]

\* validate_schedule that looks the group up first.
validate_schedule_group_first(tbl, hc, cand) ==
    LET conflicts ==
            ConflictList("group", cand.group_id,
                check_group_conflict(tbl, cand.group_id,
                    cand.day_time_block_id, cand.quarter_id, 0))
            \o ConflictList("instructor", cand.instructor_id,
                check_instructor_conflict(tbl, cand.instructor_id,
                    cand.day_time_block_id, cand.quarter_id, 0))
            \o ConflictList("classroom", cand.classroom_id,
                check_classroom_conflict(tbl, cand.classroom_id,
                    cand.day_time_block_id, cand.quarter_id, 0))
    IN [is_valid |-> Len(conflicts) = 0,
        conflicts |-> conflicts,
        warnings |-> OverloadWarning(hc, cand) \o CapacityWarning(cand)]

validate_schedule(tbl, hc, cand) ==
    LET conflicts ==
            ConflictList("instructor", cand.instructor_id,
                check_instructor_conflict(tbl, cand.instructor_id,
                    cand.day_time_block_id, cand.quarter_id, 0))
            \o ConflictList("classroom", cand.classroom_id,
                check_classroom_conflict(tbl, cand.classroom_id,
                    cand.day_time_block_id, cand.quarter_id, 0))
            \o ConflictList("group", cand.group_id,
                check_group_conflict(tbl, cand.group_id,
                    cand.day_time_block_id, cand.quarter_id, 0))
    IN [is_valid |-> Len(conflicts) = 0,
        conflicts |-> conflicts,
        warnings |-> OverloadWarning(hc, cand) \o CapacityWarning(cand)]

\* ------------------------------------------------- storage-level constraints
\* unique_violated without uq_schedule_conflict_classroom.
unique_violated_no_classroom(tbl, row) ==
    \E x \in tbl :
        /\ x.class_schedule_id # row.class_schedule_id
        /\ x.day_time_block_id = row.day_time_block_id
        /\ x.quarter_id = row.quarter_id
        /\ \/ x.instructor_id = row.instructor_id
           \/ x.group_id = row.group_id

\* The three UniqueConstraints of ClassSchedule.__table_args__: does storing
\* `row` next to the other rows of `tbl` break one of them?
unique_violated(tbl, row) ==
    \E x \in tbl :
        /\ x.class_schedule_id # row.class_schedule_id
        /\ x.day_time_block_id = row.day_time_block_id
        /\ x.quarter_id = row.quarter_id
        /\ \/ x.instructor_id = row.instructor_id
           \/ x.classroom_id = row.classroom_id
           \/ x.group_id = row.group_id

\* The five ForeignKey columns of ClassSchedule.
fk_violated(row) == \E f \in IdFields : row[f] \notin Referenced(f)

\* IntegrityErrors of a table without the unique constraints.
IntegrityErrors_fk_only(tbl, row) ==
    IF fk_violated(row) THEN {"foreign key"} ELSE {}

\* The IntegrityErrors the database can raise for storing `row`.  When two
\* constraints are broken at once, which one the database reports first is
\* its own business: both are possible.
IntegrityErrors(tbl, row) ==
    (IF unique_violated(tbl, row) THEN {"unique"} ELSE {})
    \cup (IF fk_violated(row) THEN {"foreign key"} ELSE {})

\* ------------------------------------------------------------- responses
Response(status, code, detail) == [status |-> status, code |-> code, detail |-> detail]

Upper(type) ==
    CASE type = "instructor" -> "SCHEDULE_CONFLICT_INSTRUCTOR"
      [] type = "classroom" -> "SCHEDULE_CONFLICT_CLASSROOM"
      [] type = "group" -> "SCHEDULE_CONFLICT_GROUP"

NotFoundException == Response(404, "NOT_FOUND", "")

ScheduleConflictException(conflict) ==
    Response(409, Upper(conflict.conflict_type), conflict.existing_subject)

\* handle_db_integrity_error that does not recognise the duplicate-key message.
handle_db_integrity_error_no_duplicate(error_str) ==
    IF error_str = "foreign key" THEN Response(400, "INVALID_REFERENCE", "")
    ELSE Response(400, "DATA_INTEGRITY_ERROR", "")

handle_db_integrity_error(error_str) ==
    IF error_str = "unique" THEN Response(409, "DUPLICATE_RESOURCE", "")
    ELSE IF error_str = "foreign key" THEN Response(400, "INVALID_REFERENCE", "")
    ELSE Response(400, "DATA_INTEGRITY_ERROR", "")

handle_unexpected_error == Response(500, "INTERNAL_ERROR", "")

handle_pydantic_error == Response(422, "VALIDATION_ERROR", "")

\* ------------------------------------------------------ workload trigger
\* Hours of a slot in hundredths of an hour.
slot_hours(dtb) == (duration_minutes(dtb) * 100) \div 60

on_create(hc, row) ==
    [hc EXCEPT ![row.instructor_id] = @ + slot_hours(row.day_time_block_id)]

on_delete(hc, row) ==
    [hc EXCEPT ![row.instructor_id] = @ - slot_hours(row.day_time_block_id)]

\* on_reassign that adds to the new instructor without taking from the old.
on_reassign_no_subtract(hc, old, new) ==
    IF old.instructor_id # new.instructor_id
    THEN [hc EXCEPT ![new.instructor_id] = @ + slot_hours(new.day_time_block_id)]
    ELSE [hc EXCEPT ![new.instructor_id] =
              @ + slot_hours(new.day_time_block_id) - slot_hours(old.day_time_block_id)]

\* on_reassign that forgets the slot when the instructor stays.
on_reassign_instructor_only(hc, old, new) ==
    IF old.instructor_id # new.instructor_id
    THEN [hc EXCEPT ![old.instructor_id] = @ - slot_hours(old.day_time_block_id),
                    ![new.instructor_id] = @ + slot_hours(new.day_time_block_id)]
    ELSE hc

on_reassign(hc, old, new) ==
    IF old.instructor_id # new.instructor_id
    THEN [hc EXCEPT ![old.instructor_id] = @ - slot_hours(old.day_time_block_id),
                    ![new.instructor_id] = @ + slot_hours(new.day_time_block_id)]
    ELSE [hc EXCEPT ![new.instructor_id] =
              @ + slot_hours(new.day_time_block_id) - slot_hours(old.day_time_block_id)]

\* ------------------------------------------------------------ the requests
\* The request ends: its response is sent and its session closed.
Finish(r, response) ==
    req' = [req EXCEPT ![r] = [IdleReq EXCEPT !.op = req[r].op,
                                              !.response = response]]

\* Creates that have been accepted and may still take an id.
PendingCreates ==
    Cardinality({q \in Req : req[q].op = "create" /\ req[q].pc \in {"check", "write"}})

\* POST /class-schedules arrives with body `cand`.
SubmitCreate(r, cand) ==
    /\ req[r].pc = "idle"
    /\ next_id + PendingCreates <= MaxId
    /\ req' = [req EXCEPT ![r] = [IdleReq EXCEPT !.pc = "check", !.op = "create",
                                                 !.cand = cand]]
    /\ UNCHANGED <<rows, next_id, hour_count>>

\* create_class_schedule up to the conflict check: the five get_or_404 and
\* validate_schedule.
\* create_check that raises on a warning as it does on a conflict.
create_check_warnings_block(tbl, hc, cand) ==
    IF \E f \in IdFields : cand[f] \notin Referenced(f)
    THEN NotFoundException
    ELSE LET validation == validate_schedule(tbl, hc, cand)
         IN IF ~validation.is_valid
            THEN ScheduleConflictException(validation.conflicts[1])
            ELSE IF Len(validation.warnings) > 0
            THEN Response(400, "INSTRUCTOR_OVERLOAD", "")
            ELSE NoResponse

create_check(tbl, hc, cand) ==
    IF \E f \in IdFields : cand[f] \notin Referenced(f)
    THEN NotFoundException
    ELSE LET validation == validate_schedule(tbl, hc, cand)
         IN IF ~validation.is_valid
            THEN ScheduleConflictException(validation.conflicts[1])
            ELSE NoResponse

CheckCreate(r) ==
    /\ req[r].pc = "check" /\ req[r].op = "create"
    /\ LET response == create_check(rows, hour_count, req[r].cand)
       IN IF response # NoResponse
          THEN Finish(r, response)
          ELSE req' = [req EXCEPT ![r].pc = "write"]
    /\ UNCHANGED <<rows, next_id, hour_count>>

\* The row BaseRepository.create builds from the schema and the next key.
NewRow(cand, id) ==
    [class_schedule_id |-> id, subject |-> cand.subject,
     quarter_id |-> cand.quarter_id,
     day_time_block_id |-> cand.day_time_block_id,
     group_id |-> cand.group_id, instructor_id |-> cand.instructor_id,
     classroom_id |-> cand.classroom_id]

\* BaseRepository.create: add, commit.  The workload trigger runs with the
\* INSERT, inside the same transaction.
WriteCreate(r) ==
    /\ req[r].pc = "write" /\ req[r].op = "create"
    /\ LET row == NewRow(req[r].cand, next_id)
           errors == IntegrityErrors(rows, row)
       IN IF errors = {}
          THEN /\ rows' = rows \cup {row}
               /\ next_id' = next_id + 1
               /\ hour_count' = on_create(hour_count, row)
               /\ req' = [req EXCEPT ![r] = [IdleReq EXCEPT !.pc = "read",
                                              !.op = "create",
                                              !.id = row.class_schedule_id]]
          ELSE /\ \E e \in errors : Finish(r, handle_db_integrity_error(e))
               /\ UNCHANGED <<rows, next_id, hour_count>>

\* get_with_relations and ClassScheduleDetailed.model_validate after the
\* commit, for create (201) and update (200).
ReadBack(r) ==
    /\ req[r].pc = "read"
    /\ IF get(rows, req[r].id) = {}
       THEN Finish(r, handle_pydantic_error)
       ELSE Finish(r, Response(IF req[r].op = "create" THEN 201 ELSE 200, "OK", ""))
    /\ UNCHANGED <<rows, next_id, hour_count>>

\* PUT /class-schedules/{id} arrives with body `patch`.
SubmitUpdate(r, id, patch) ==
    /\ req[r].pc = "idle"
    /\ req' = [req EXCEPT ![r] = [IdleReq EXCEPT !.pc = "check", !.op = "update",
                                                 !.id = id, !.patch = patch]]
    /\ UNCHANGED <<rows, next_id, hour_count>>

\* `schedule_in.<f> is not None`
IsNotNone(patch, f) == f \in patch.set

\* `schedule_in.<f> or schedule.<f>`: an unset field, an id of 0 and an empty
\* subject are all false.
Or(patch, f, schedule) ==
    IF f \in patch.set /\ patch.val[f] # NoCand[f] THEN patch.val[f] ELSE schedule[f]

\* The ClassScheduleCreate that update_class_schedule validates.
validation_data(patch, schedule) ==
    [subject |-> Or(patch, "subject", schedule),
     quarter_id |-> Or(patch, "quarter_id", schedule),
     day_time_block_id |-> Or(patch, "day_time_block_id", schedule),
     group_id |-> Or(patch, "group_id", schedule),
     instructor_id |-> Or(patch, "instructor_id", schedule),
     classroom_id |-> Or(patch, "classroom_id", schedule)]

\* The conflicts update_class_schedule keeps: those of another schedule.
update_conflicts(tbl, hc, schedule, patch) ==
    IF \E f \in IdFields : IsNotNone(patch, f)
    THEN SelectSeq(validate_schedule(tbl, hc, validation_data(patch, schedule)).conflicts,
                   LAMBDA c : c.existing_schedule_id # schedule.class_schedule_id)
    ELSE <<>>

\* update_class_schedule up to the conflict check.
update_check(tbl, hc, id, patch) ==
    IF get(tbl, id) = {}
    THEN NotFoundException
    ELSE LET conflicts == update_conflicts(tbl, hc, First(get(tbl, id)), patch)
         IN IF Len(conflicts) > 0
            THEN ScheduleConflictException(conflicts[1])
            ELSE NoResponse

\* BaseRepository.update, the setattr loop: the attributes of db_obj that
\* become dirty are the supplied fields whose value differs from the loaded
\* one; the session's UPDATE sets exactly these columns.
Dirty(db_obj, patch) ==
    LET changed == {f \in patch.set : patch.val[f] # db_obj[f]}
    IN [set |-> changed,
        val |-> [f \in DOMAIN patch.val |->
                    IF f \in changed THEN patch.val[f] ELSE NoCand[f]]]

CheckUpdate(r) ==
    /\ req[r].pc = "check" /\ req[r].op = "update"
    /\ LET response == update_check(rows, hour_count, req[r].id, req[r].patch)
       IN IF response # NoResponse
          THEN Finish(r, response)
          ELSE req' = [req EXCEPT ![r].pc = "write",
                                  ![r].patch = Dirty(First(get(rows, req[r].id)),
                                                     req[r].patch)]
    /\ UNCHANGED <<rows, next_id, hour_count>>

\* Updated that never sets instructor_id.
Updated_skips_instructor(stored, dirty) ==
    [f \in DOMAIN stored |->
        IF f \in dirty.set \ {"instructor_id"} THEN dirty.val[f] ELSE stored[f]]

\* The row the UPDATE leaves: the stored row with the dirty columns set.
Updated(stored, dirty) ==
    [f \in DOMAIN stored |-> IF f \in dirty.set THEN dirty.val[f] ELSE stored[f]]

\* BaseRepository.update: add, commit, refresh.  The workload
\* trigger runs with the UPDATE, inside the same transaction.
WriteUpdate(r) ==
    /\ req[r].pc = "write" /\ req[r].op = "update"
    /\ LET stored == get(rows, req[r].id)
       IN IF stored = {}
          THEN \* the row was deleted meanwhile: StaleDataError, or refresh fails
               /\ Finish(r, handle_unexpected_error)
               /\ UNCHANGED <<rows, next_id, hour_count>>
          ELSE LET old == First(stored)
                   new == Updated(old, req[r].patch)
                   errors == IntegrityErrors(rows, new)
               IN IF errors = {}
                  THEN /\ rows' = (rows \ {old}) \cup {new}
                       /\ hour_count' = on_reassign(hour_count, old, new)
                       /\ req' = [req EXCEPT ![r] = [IdleReq EXCEPT !.pc = "read",
                                                      !.op = "update",
                                                      !.id = req[r].id]]
                       /\ UNCHANGED next_id
                  ELSE /\ \E e \in errors : Finish(r, handle_db_integrity_error(e))
                       /\ UNCHANGED <<rows, next_id, hour_count>>

\* DELETE /class-schedules/{id} arrives.
SubmitDelete(r, id) ==
    /\ req[r].pc = "idle"
    /\ req' = [req EXCEPT ![r] = [IdleReq EXCEPT !.pc = "check", !.op = "delete",
                                                 !.id = id]]
    /\ UNCHANGED <<rows, next_id, hour_count>>

\* BaseRepository.delete, the lookup.
CheckDelete(r) ==
    /\ req[r].pc = "check" /\ req[r].op = "delete"
    /\ IF get(rows, req[r].id) = {}
       THEN Finish(r, NotFoundException)
       ELSE req' = [req EXCEPT ![r].pc = "write"]
    /\ UNCHANGED <<rows, next_id, hour_count>>

\* Deleted with a WHERE clause that compares with <=.
Deleted_up_to(tbl, id) == {x \in tbl : x.class_schedule_id <= id}

\* The rows DELETE ... WHERE class_schedule_id = :id removes.
Deleted(tbl, id) == get(tbl, id)

\* BaseRepository.delete, db.delete and commit.  The workload trigger runs
\* with the DELETE.  A DELETE that matches no row (another session deleted
\* it first) is reported by the ORM as a warning or as an error.
WriteDelete(r) ==
    /\ req[r].pc = "write" /\ req[r].op = "delete"
    /\ LET gone == Deleted(rows, req[r].id)
       IN IF gone = {}
          THEN /\ \/ Finish(r, Response(200, "OK", ""))
                  \/ Finish(r, handle_unexpected_error)
               /\ UNCHANGED <<rows, next_id, hour_count>>
          ELSE /\ rows' = rows \ gone
               /\ hour_count' = on_delete(hour_count, First(gone))
               /\ Finish(r, Response(200, "OK", ""))
               /\ UNCHANGED next_id

\* ------------------------------------------------------- read-only calls
\* The replies on record are kept if the stored data is as before, and
\* dropped otherwise.
Kept(same) ==
    /\ validate_reply' = IF same THEN validate_reply ELSE NoValidation
    /\ workload_reply' = IF same THEN workload_reply ELSE NoWorkload

\* No request is between its arrival and its response.
Idle == \A r \in Req : req[r].pc = "idle"

\* validate_class_schedule whose conflicts list outlives the call: every
\* call appends to the list of the call before.
validate_class_schedule_shared_list(cand) ==
    LET v == validate_schedule(rows, hour_count, cand)
        conflicts == validate_reply.conflicts \o v.conflicts
    IN /\ Len(validate_reply.conflicts) <= 3
       /\ validate_reply' = [cand |-> cand, is_valid |-> Len(conflicts) = 0,
                             conflicts |-> conflicts, warnings |-> v.warnings]
       /\ UNCHANGED <<rows, next_id, hour_count, req, instructors, workload_reply>>
       /\ UNCHANGED catalog

\* validate_class_schedule that saves the candidate it found valid.
validate_class_schedule_saving(cand) ==
    LET v == validate_schedule(rows, hour_count, cand)
    IN /\ validate_reply' = [cand |-> cand, is_valid |-> v.is_valid,
                             conflicts |-> v.conflicts, warnings |-> v.warnings]
       /\ rows' = IF v.is_valid /\ next_id <= MaxId
                  THEN rows \cup {NewRow(cand, next_id)} ELSE rows
       /\ UNCHANGED <<next_id, hour_count, req, instructors, workload_reply>>
       /\ UNCHANGED catalog

\* POST /class-schedules/validate: validate_schedule, whose statements are
\* all SELECTs, and the reply; the session is closed without a commit.
validate_class_schedule(cand) ==
    LET v == validate_schedule(rows, hour_count, cand)
    IN /\ validate_reply' = [cand |-> cand, is_valid |-> v.is_valid,
                             conflicts |-> v.conflicts, warnings |-> v.warnings]
       /\ rows' = rows
       /\ UNCHANGED <<next_id, hour_count, req, instructors, workload_reply>>
       /\ UNCHANGED catalog

\* workload_status whose comparisons are strict.
workload_status_strict(total_hours, limit) ==
    IF limit = 0 THEN "NO_LIMIT"
    ELSE IF total_hours > 100 * limit THEN "OVERLOADED"
    ELSE IF total_hours > 90 * limit THEN "NEAR_LIMIT"
    ELSE IF total_hours > 70 * limit THEN "HIGH_LOAD"
    ELSE IF total_hours > 50 * limit THEN "MEDIUM_LOAD"
    ELSE "LOW_LOAD"

\* The if/elif chain of get_instructor_workload.  utilization_percentage is
\* hour_count / hour_limit * 100; with total_hours in hundredths of an hour
\* it is total_hours / limit, and `utilization >= p` is
\* total_hours >= p * limit.  It is None when there is no limit.
workload_status(total_hours, limit) ==
    IF limit = 0 THEN "NO_LIMIT"
    ELSE IF total_hours >= 100 * limit THEN "OVERLOADED"
    ELSE IF total_hours >= 90 * limit THEN "NEAR_LIMIT"
    ELSE IF total_hours >= 70 * limit THEN "HIGH_LOAD"
    ELSE IF total_hours >= 50 * limit THEN "MEDIUM_LOAD"
    ELSE "LOW_LOAD"

\* InstructorRepository.get_workload_summary and the status; 404 when the
\* summary is empty.
InstructorWorkload(instructor_id) ==
    IF instructor_id \notin instructor
    THEN [NoWorkload EXCEPT !.status = 404, !.instructor_id = instructor_id]
    ELSE [status |-> 200, instructor_id |-> instructor_id,
          total_hours |-> hour_count[instructor_id],
          contract_limit |-> hour_limit(instructor_id),
          workload_status |-> workload_status(hour_count[instructor_id],
                                              hour_limit(instructor_id))]

\* GET /instructors/{instructor_id}/workload.
get_instructor_workload(instructor_id) ==
    /\ workload_reply' = InstructorWorkload(instructor_id)
    /\ UNCHANGED <<rows, next_id, hour_count, req, instructors, validate_reply>>
    /\ UNCHANGED catalog

\* ------------------------------------------------------- update_instructor
\* A request body of PUT /instructors/{id}: the keys it carries and their
\* values.  contract_id 0 is JSON null.
NoBody == [set |-> {}, contract_id |-> 0, email |-> "", hour_count |-> 0]

\* An InstructorUpdate that has a hour_count field.
InstructorUpdate_with_hour_count(body) == body

\* InstructorUpdate(**body).model_dump(exclude_unset=True): the schema has
\* no hour_count field and ignores the keys it does not declare.
InstructorUpdate(body) ==
    [body EXCEPT !.set = @ \cap {"contract_id", "email"}, !.hour_count = 0]

\* InstructorRepository.is_email_taken.
is_email_taken(email, exclude_id) ==
    \E j \in instructor : j # exclude_id /\ instructors[j].email = email

\* HRService.update_instructor up to the write: 404, 409 or go on.
update_instructor_check(instructor_id, instructor_in) ==
    IF instructor_id \notin instructor THEN NotFoundException
    ELSE IF /\ "email" \in instructor_in.set
            /\ instructor_in.email # instructors[instructor_id].email
            /\ is_email_taken(instructor_in.email, instructor_id)
    THEN Response(409, "EMAIL_TAKEN", "")
    ELSE IF /\ "contract_id" \in instructor_in.set
            /\ instructor_in.contract_id # 0
            /\ instructor_in.contract_id \notin Contracts
    THEN NotFoundException
    ELSE NoResponse

\* PUT /instructors/{instructor_id}: the checks, then BaseRepository.update,
\* which sets every column of the instructor that update_data names.
update_instructor(instructor_id, body) ==
    LET instructor_in == InstructorUpdate(body)
    IN /\ IF update_instructor_check(instructor_id, instructor_in) # NoResponse
          THEN UNCHANGED <<instructors, hour_count>>
          ELSE /\ instructors' =
                    [instructors EXCEPT ![instructor_id] =
                        [contract_id |-> IF "contract_id" \in instructor_in.set
                                         THEN instructor_in.contract_id
                                         ELSE @.contract_id,
                         email |-> IF "email" \in instructor_in.set
                                   THEN instructor_in.email ELSE @.email]]
               /\ hour_count' =
                    IF "hour_count" \in instructor_in.set
                    THEN [hour_count EXCEPT ![instructor_id] = instructor_in.hour_count]
                    ELSE hour_count
       /\ Kept(instructors' = instructors /\ hour_count' = hour_count)
       /\ UNCHANGED <<rows, next_id, req>>
       /\ UNCHANGED catalog

\* ------------------------------------------------- catalogue operations
BadRequestException(error_code) == Response(400, error_code, "")

ConflictException(error_code) == Response(409, error_code, "")

\* The handler of a request whose body fails a schema validator.
handle_validation_error == Response(422, "VALIDATION_ERROR", "")

Created == Response(201, "OK", "")
Ok == Response(200, "OK", "")

Answer(op, a, b, c, response, result) ==
    [op |-> op, a |-> a, b |-> b, c |-> c, status |-> response.status,
     code |-> response.code, result |-> result]

\* A catalogue operation leaves the class schedules, the workloads and the
\* class-schedule requests alone; the recorded read-only replies last as long
\* as the tables they were computed from.
Catalogue(same) ==
    /\ UNCHANGED <<rows, next_id, hour_count, req, instructors>>
    /\ Kept(same)

\* <Repository>.get_schedules_count: the class schedules whose column f is id.
get_schedules_count(f, id) == Cardinality({x \in rows : x[f] = id})

\* ---- time blocks
\* TimeBlockBase.validate_times, the validator of TimeBlockCreate.
validate_times(start_time, end_time) == end_time > start_time

get_by_times(start_time, end_time) ==
    {b \in time_block : b.start_time = start_time /\ b.end_time = end_time}

get_day_time_blocks_count(time_block_id) ==
    Cardinality({s \in day_time_block : s.time_block_id = time_block_id})

\* TimeBlockRepository.get_overlapping_blocks: the stored blocks whose clock
\* range meets [start_time, end_time).
get_overlapping_blocks(start_time, end_time) ==
    {b \in time_block :
        \/ b.start_time <= start_time /\ b.end_time > start_time
        \/ b.start_time < end_time /\ b.end_time >= end_time
        \/ b.start_time >= start_time /\ b.end_time <= end_time}

\* create_time_block that refuses a block overlapping a stored one.
create_time_block_check_no_overlap(start_time, end_time) ==
    IF ~validate_times(start_time, end_time) THEN handle_validation_error
    ELSE IF get_by_times(start_time, end_time) # {}
         THEN ConflictException("TIME_BLOCK_EXISTS")
    ELSE IF get_overlapping_blocks(start_time, end_time) # {}
         THEN ConflictException("TIME_BLOCK_OVERLAP")
    ELSE Created

create_time_block_check(start_time, end_time) ==
    IF ~validate_times(start_time, end_time) THEN handle_validation_error
    ELSE IF get_by_times(start_time, end_time) # {}
         THEN ConflictException("TIME_BLOCK_EXISTS")
    ELSE IF end_time <= start_time
         THEN BadRequestException("INVALID_TIME_RANGE")
    ELSE Created

\* POST /time-blocks
create_time_block(start_time, end_time) ==
    LET response == create_time_block_check(start_time, end_time)
        id == autoinc.time_block
    IN /\ response.status = 201 => id <= MaxKey
       /\ IF response.status = 201
          THEN /\ time_block' = time_block \cup
                     {[time_block_id |-> id, start_time |-> start_time,
                       end_time |-> end_time]}
               /\ autoinc' = [autoinc EXCEPT !.time_block = id + 1]
          ELSE UNCHANGED <<time_block, autoinc>>
       /\ reply' = Answer("create_time_block", start_time, end_time, 0, response,
                          IF response.status = 201 THEN {id} ELSE {})
       /\ UNCHANGED <<day_time_block, quarter, student_group, instructor,
                      classroom, quarter_req>>
       /\ Catalogue(time_block' = time_block)

\* update_data.get(field, stored): 0 stands for a field the caller left unset.
Get(value, stored) == IF value # 0 THEN value ELSE stored

\* update_time_block that does not ask whether the block is in use.
update_time_block_check_unused(block, start_time, end_time) ==
    LET start == Get(start_time, block.start_time)
        end == Get(end_time, block.end_time)
        existing == get_by_times(start, end)
    IN  IF end <= start THEN BadRequestException("INVALID_TIME_RANGE")
        ELSE IF /\ (start_time # 0 \/ end_time # 0)
                /\ \E b \in existing : b.time_block_id # block.time_block_id
             THEN ConflictException("TIME_BLOCK_EXISTS")
        ELSE Ok

update_time_block_check(block, start_time, end_time) ==
    LET start == Get(start_time, block.start_time)
        end == Get(end_time, block.end_time)
        existing == get_by_times(start, end)
    IN  IF get_day_time_blocks_count(block.time_block_id) > 0
        THEN BadRequestException("TIME_BLOCK_IN_USE")
        ELSE IF end <= start THEN BadRequestException("INVALID_TIME_RANGE")
        ELSE IF /\ (start_time # 0 \/ end_time # 0)
                /\ \E b \in existing : b.time_block_id # block.time_block_id
             THEN ConflictException("TIME_BLOCK_EXISTS")
        ELSE Ok

\* PUT /time-blocks/{time_block_id}
update_time_block(time_block_id, start_time, end_time) ==
    LET found == {b \in time_block : b.time_block_id = time_block_id}
        response == IF found = {} THEN NotFoundException
                    ELSE update_time_block_check(CHOOSE b \in found : TRUE,
                                                 start_time, end_time)
    IN /\ IF response.status = 200
          THEN time_block' =
                   {IF b.time_block_id = time_block_id
                    THEN [b EXCEPT !.start_time = Get(start_time, @),
                                   !.end_time = Get(end_time, @)]
                    ELSE b : b \in time_block}
          ELSE UNCHANGED time_block
       /\ reply' = Answer("update_time_block", time_block_id, start_time, end_time,
                          response, {})
       /\ UNCHANGED <<day_time_block, quarter, student_group, instructor,
                      classroom, autoinc, quarter_req>>
       /\ Catalogue(time_block' = time_block)

delete_time_block_check(time_block_id) ==
    IF time_block_id \notin {b.time_block_id : b \in time_block}
    THEN NotFoundException
    ELSE IF get_day_time_blocks_count(time_block_id) > 0
         THEN BadRequestException("TIME_BLOCK_IN_USE")
    ELSE Ok

\* DELETE /time-blocks/{time_block_id}
delete_time_block(time_block_id) ==
    LET response == delete_time_block_check(time_block_id)
    IN /\ IF response.status = 200
          THEN time_block' = {b \in time_block : b.time_block_id # time_block_id}
          ELSE UNCHANGED time_block
       /\ reply' = Answer("delete_time_block", time_block_id, 0, 0, response, {})
       /\ UNCHANGED <<day_time_block, quarter, student_group, instructor,
                      classroom, autoinc, quarter_req>>
       /\ Catalogue(time_block' = time_block)

\* ---- slots
get_by_day_and_block(day_id, time_block_id) ==
    {s \in day_time_block : s.day_id = day_id /\ s.time_block_id = time_block_id}

\* create_day_time_block that does not look the pair up.
create_day_time_block_check_no_lookup(day_id, time_block_id) ==
    IF day_id \notin Days THEN NotFoundException
    ELSE IF time_block_id \notin {b.time_block_id : b \in time_block}
         THEN NotFoundException
    ELSE Created

create_day_time_block_check(day_id, time_block_id) ==
    IF day_id \notin Days THEN NotFoundException
    ELSE IF time_block_id \notin {b.time_block_id : b \in time_block}
         THEN NotFoundException
    ELSE IF get_by_day_and_block(day_id, time_block_id) # {}
         THEN ConflictException("DAY_TIME_BLOCK_EXISTS")
    ELSE Created

\* POST /day-time-blocks
create_day_time_block(day_id, time_block_id) ==
    LET response == create_day_time_block_check(day_id, time_block_id)
        id == autoinc.day_time_block
    IN /\ response.status = 201 => id <= MaxKey
       /\ IF response.status = 201
          THEN /\ day_time_block' = day_time_block \cup
                     {[day_time_block_id |-> id, day_id |-> day_id,
                       time_block_id |-> time_block_id]}
               /\ autoinc' = [autoinc EXCEPT !.day_time_block = id + 1]
          ELSE UNCHANGED <<day_time_block, autoinc>>
       /\ reply' = Answer("create_day_time_block", day_id, time_block_id, 0,
                          response, IF response.status = 201 THEN {id} ELSE {})
       /\ UNCHANGED <<time_block, quarter, student_group, instructor,
                      classroom, quarter_req>>
       /\ Catalogue(day_time_block' = day_time_block)

delete_day_time_block_check(day_time_block_id) ==
    IF day_time_block_id \notin Referenced("day_time_block_id")
    THEN NotFoundException
    ELSE IF get_schedules_count("day_time_block_id", day_time_block_id) > 0
         THEN BadRequestException("DAY_TIME_BLOCK_IN_USE")
    ELSE Ok

\* DELETE /day-time-blocks/{day_time_block_id}
delete_day_time_block(day_time_block_id) ==
    LET response == delete_day_time_block_check(day_time_block_id)
    IN /\ IF response.status = 200
          THEN day_time_block' =
                   {s \in day_time_block : s.day_time_block_id # day_time_block_id}
          ELSE UNCHANGED day_time_block
       /\ reply' = Answer("delete_day_time_block", day_time_block_id, 0, 0,
                          response, {})
       /\ UNCHANGED <<time_block, quarter, student_group, instructor,
                      classroom, autoinc, quarter_req>>
       /\ Catalogue(day_time_block' = day_time_block)

\* ---- quarters
\* QuarterBase.validate_dates, the validator of QuarterCreate.
validate_dates(start_date, end_date) == end_date > start_date

get_by_dates(start_date, end_date) ==
    {q \in quarter : q.start_date = start_date /\ q.end_date = end_date}

\* get_overlapping_quarters with strict comparisons: ranges that only touch
\* do not overlap.
get_overlapping_quarters_strict(start_date, end_date, exclude_id) ==
    {q \in quarter :
        /\ \/ q.start_date <= start_date /\ q.end_date > start_date
           \/ q.start_date < end_date /\ q.end_date >= end_date
           \/ q.start_date >= start_date /\ q.end_date <= end_date
        /\ (exclude_id # 0 => q.quarter_id # exclude_id)}

\* exclude_id 0 stands for None (`if exclude_id:`).
get_overlapping_quarters(start_date, end_date, exclude_id) ==
    {q \in quarter :
        /\ \/ q.start_date <= start_date /\ q.end_date >= start_date
           \/ q.start_date <= end_date /\ q.end_date >= end_date
           \/ q.start_date >= start_date /\ q.end_date <= end_date
        /\ (exclude_id # 0 => q.quarter_id # exclude_id)}

create_quarter_check(start_date, end_date) ==
    IF ~validate_dates(start_date, end_date) THEN handle_validation_error
    ELSE IF end_date <= start_date THEN BadRequestException("INVALID_DATE_RANGE")
    ELSE IF get_by_dates(start_date, end_date) # {}
         THEN ConflictException("QUARTER_EXISTS")
    ELSE IF get_overlapping_quarters(start_date, end_date, 0) # {}
         THEN ConflictException("QUARTER_OVERLAP")
    ELSE Created

\* POST /quarters, up to the insert: the validator and the checks of
\* create_quarter.  A request that passes waits in quarter_req.
CheckCreateQuarter(r, start_date, end_date) ==
    LET response == create_quarter_check(start_date, end_date)
    IN /\ \A p \in quarter_req : p.r # r
       /\ response.status = 201 =>
              autoinc.quarter + Cardinality(quarter_req) <= MaxQuarterId
       /\ IF response.status = 201
          THEN /\ quarter_req' = quarter_req \cup
                     {[r |-> r, start_date |-> start_date, end_date |-> end_date]}
               /\ UNCHANGED reply
          ELSE /\ reply' = Answer("create_quarter", start_date, end_date, 0,
                                  response, {})
               /\ UNCHANGED quarter_req
       /\ UNCHANGED <<time_block, day_time_block, quarter, student_group,
                      instructor, classroom, autoinc>>
       /\ Catalogue(TRUE)

\* The insert of POST /quarters under a storage-level rule that refuses a
\* row whose range overlaps a stored one.
WriteCreateQuarter_exclusive(r) ==
    \E p \in quarter_req :
       LET id == autoinc.quarter
           duplicate == get_overlapping_quarters(p.start_date, p.end_date, 0) # {}
           response == IF duplicate THEN handle_db_integrity_error("unique")
                       ELSE Created
       IN /\ p.r = r
          /\ IF duplicate
             THEN UNCHANGED <<quarter, autoinc>>
             ELSE /\ quarter' = quarter \cup
                        {[quarter_id |-> id, start_date |-> p.start_date,
                          end_date |-> p.end_date]}
                  /\ autoinc' = [autoinc EXCEPT !.quarter = id + 1]
          /\ quarter_req' = quarter_req \ {p}
          /\ reply' = Answer("create_quarter", p.start_date, p.end_date, 0,
                             response, IF duplicate THEN {} ELSE {id})
          /\ UNCHANGED <<time_block, day_time_block, student_group, instructor,
                         classroom>>
          /\ Catalogue(quarter' = quarter)

\* POST /quarters, the insert (quarter_repo.create): uq_quarter_dates refuses
\* a second row with the same two dates.
WriteCreateQuarter(r) ==
    \E p \in quarter_req :
       LET id == autoinc.quarter
           duplicate == get_by_dates(p.start_date, p.end_date) # {}
           response == IF duplicate THEN handle_db_integrity_error("unique")
                       ELSE Created
       IN /\ p.r = r
          /\ IF duplicate
             THEN UNCHANGED <<quarter, autoinc>>
             ELSE /\ quarter' = quarter \cup
                        {[quarter_id |-> id, start_date |-> p.start_date,
                          end_date |-> p.end_date]}
                  /\ autoinc' = [autoinc EXCEPT !.quarter = id + 1]
          /\ quarter_req' = quarter_req \ {p}
          /\ reply' = Answer("create_quarter", p.start_date, p.end_date, 0,
                             response, IF duplicate THEN {} ELSE {id})
          /\ UNCHANGED <<time_block, day_time_block, student_group, instructor,
                         classroom>>
          /\ Catalogue(quarter' = quarter)

\* GET /quarters/current on the day `today`: the first row of a query with
\* no ORDER BY, any of the matching rows.
get_current_quarter(today) ==
    LET current == {q \in quarter : q.start_date <= today /\ q.end_date >= today}
    IN /\ \E result \in (IF current = {} THEN {{}}
                        ELSE {{q.quarter_id} : q \in current}) :
              reply' = Answer("get_current_quarter", today, 0, 0, Ok, result)
       /\ UNCHANGED <<time_block, day_time_block, quarter, student_group,
                      instructor, classroom, autoinc, quarter_req>>
       /\ Catalogue(TRUE)

\* update_quarter that checks the new range against every quarter, the
\* updated one included.
update_quarter_check_no_exclude(q, start_date, end_date) ==
    LET start == Get(start_date, q.start_date)
        end == Get(end_date, q.end_date)
    IN  IF end <= start THEN BadRequestException("INVALID_DATE_RANGE")
        ELSE IF /\ (start_date # 0 \/ end_date # 0)
                /\ get_overlapping_quarters(start, end, 0) # {}
             THEN ConflictException("QUARTER_OVERLAP")
        ELSE Ok

update_quarter_check(q, start_date, end_date) ==
    LET start == Get(start_date, q.start_date)
        end == Get(end_date, q.end_date)
    IN  IF end <= start THEN BadRequestException("INVALID_DATE_RANGE")
        ELSE IF /\ (start_date # 0 \/ end_date # 0)
                /\ get_overlapping_quarters(start, end, q.quarter_id) # {}
             THEN ConflictException("QUARTER_OVERLAP")
        ELSE Ok

\* PUT /quarters/{quarter_id}
update_quarter(quarter_id, start_date, end_date) ==
    LET found == {q \in quarter : q.quarter_id = quarter_id}
        response == IF found = {} THEN NotFoundException
                    ELSE update_quarter_check(CHOOSE q \in found : TRUE,
                                              start_date, end_date)
    IN /\ IF response.status = 200
          THEN quarter' =
                   {IF q.quarter_id = quarter_id
                    THEN [q EXCEPT !.start_date = Get(start_date, @),
                                   !.end_date = Get(end_date, @)]
                    ELSE q : q \in quarter}
          ELSE UNCHANGED quarter
       /\ reply' = Answer("update_quarter", quarter_id, start_date, end_date,
                          response, {})
       /\ UNCHANGED <<time_block, day_time_block, student_group, instructor,
                      classroom, autoinc, quarter_req>>
       /\ Catalogue(quarter' = quarter)

\* delete_quarter that refuses as soon as any class schedule is stored.
delete_quarter_check_any_schedule(quarter_id) ==
    IF quarter_id \notin Referenced("quarter_id") THEN NotFoundException
    ELSE IF Cardinality(rows) > 0
         THEN BadRequestException("QUARTER_HAS_SCHEDULES")
    ELSE Ok

delete_quarter_check(quarter_id) ==
    IF quarter_id \notin Referenced("quarter_id") THEN NotFoundException
    ELSE IF get_schedules_count("quarter_id", quarter_id) > 0
         THEN BadRequestException("QUARTER_HAS_SCHEDULES")
    ELSE Ok

\* DELETE /quarters/{quarter_id}
delete_quarter(quarter_id) ==
    LET response == delete_quarter_check(quarter_id)
    IN /\ IF response.status = 200
          THEN quarter' = {q \in quarter : q.quarter_id # quarter_id}
          ELSE UNCHANGED quarter
       /\ reply' = Answer("delete_quarter", quarter_id, 0, 0, response, {})
       /\ UNCHANGED <<time_block, day_time_block, student_group, instructor,
                      classroom, autoinc, quarter_req>>
       /\ Catalogue(quarter' = quarter)

\* ---- student groups
disable_student_group_check(group_id) ==
    LET found == {g \in student_group : g.group_id = group_id}
    IN  IF found = {} THEN NotFoundException
        ELSE IF \E g \in found : ~g.active
             THEN BadRequestException("GROUP_ALREADY_DISABLED")
        ELSE IF get_schedules_count("group_id", group_id) > 0
             THEN BadRequestException("GROUP_HAS_SCHEDULES")
        ELSE Ok

\* PATCH /groups/{group_id}/disable
disable_student_group(group_id) ==
    LET response == disable_student_group_check(group_id)
    IN /\ IF response.status = 200
          THEN student_group' =
                   {IF g.group_id = group_id THEN [g EXCEPT !.active = FALSE]
                    ELSE g : g \in student_group}
          ELSE UNCHANGED student_group
       /\ reply' = Answer("disable_student_group", group_id, 0, 0, response, {})
       /\ UNCHANGED <<time_block, day_time_block, quarter, instructor,
                      classroom, autoinc, quarter_req>>
       /\ Catalogue(student_group' = student_group)

\* A StudentGroupUpdate body, of which `active` is kept: unset, true or false.
NoGroupUpdate == [set |-> {}, active |-> FALSE]

\* PUT /groups/{group_id}: the group's number, dates, program and schedule
\* stay as they are; group_repo.update stores the fields the body sets.
update_student_group(group_id, group_in) ==
    LET found == {g \in student_group : g.group_id = group_id}
        response == IF found = {} THEN NotFoundException ELSE Ok
    IN /\ IF response.status = 200 /\ "active" \in group_in.set
          THEN student_group' =
                   {IF g.group_id = group_id
                    THEN [g EXCEPT !.active = group_in.active]
                    ELSE g : g \in student_group}
          ELSE UNCHANGED student_group
       /\ reply' = Answer("update_student_group", group_id,
                          IF "active" \in group_in.set THEN 1 ELSE 0,
                          IF group_in.active THEN 1 ELSE 0, response, {})
       /\ UNCHANGED <<time_block, day_time_block, quarter, instructor,
                      classroom, autoinc, quarter_req>>
       /\ Catalogue(student_group' = student_group)

delete_student_group_check(group_id) ==
    IF group_id \notin Referenced("group_id") THEN NotFoundException
    ELSE IF get_schedules_count("group_id", group_id) > 0
         THEN BadRequestException("GROUP_HAS_SCHEDULES")
    ELSE Ok

\* DELETE /groups/{group_id}
delete_student_group(group_id) ==
    LET response == delete_student_group_check(group_id)
    IN /\ IF response.status = 200
          THEN student_group' = {g \in student_group : g.group_id # group_id}
          ELSE UNCHANGED student_group
       /\ reply' = Answer("delete_student_group", group_id, 0, 0, response, {})
       /\ UNCHANGED <<time_block, day_time_block, quarter, instructor,
                      classroom, autoinc, quarter_req>>
       /\ Catalogue(student_group' = student_group)

\* ---- instructors and classrooms
\* delete_instructor that does not ask for class schedules.
delete_instructor_check_no_count(instructor_id) ==
    IF instructor_id \notin instructor THEN NotFoundException ELSE Ok

delete_instructor_check(instructor_id) ==
    IF instructor_id \notin instructor THEN NotFoundException
    ELSE IF get_schedules_count("instructor_id", instructor_id) > 0
         THEN BadRequestException("INSTRUCTOR_HAS_SCHEDULES")
    ELSE Ok

\* DELETE /instructors/{instructor_id}
delete_instructor(instructor_id) ==
    LET response == delete_instructor_check(instructor_id)
    IN /\ IF response.status = 200
          THEN instructor' = instructor \ {instructor_id}
          ELSE UNCHANGED instructor
       /\ reply' = Answer("delete_instructor", instructor_id, 0, 0, response, {})
       /\ UNCHANGED <<time_block, day_time_block, quarter, student_group,
                      classroom, autoinc, quarter_req>>
       /\ Catalogue(instructor' = instructor)

delete_classroom_check(classroom_id) ==
    IF classroom_id \notin classroom THEN NotFoundException
    ELSE IF get_schedules_count("classroom_id", classroom_id) > 0
         THEN BadRequestException("CLASSROOM_HAS_SCHEDULES")
    ELSE Ok

\* DELETE /classrooms/{classroom_id}
delete_classroom(classroom_id) ==
    LET response == delete_classroom_check(classroom_id)
    IN /\ IF response.status = 200
          THEN classroom' = classroom \ {classroom_id}
          ELSE UNCHANGED classroom
       /\ reply' = Answer("delete_classroom", classroom_id, 0, 0, response, {})
       /\ UNCHANGED <<time_block, day_time_block, quarter, student_group,
                      instructor, autoinc, quarter_req>>
       /\ Catalogue(classroom' = classroom)

\* get_available_classrooms whose subquery leaves the quarter out.
get_available_classrooms_any_quarter(day_time_block_id, quarter_id, min_capacity) ==
    LET occupied == {x.classroom_id : x \in
                        {y \in rows : y.day_time_block_id = day_time_block_id}}
    IN  {c \in classroom :
            /\ c \notin occupied
            /\ (min_capacity # 0 => classroom_capacity(c) >= min_capacity)}

\* ClassroomRepository.get_available_classrooms; min_capacity 0 stands for
\* None (`if min_capacity:`).
get_available_classrooms(day_time_block_id, quarter_id, min_capacity) ==
    LET occupied == {x.classroom_id : x \in
                        {y \in rows : /\ y.day_time_block_id = day_time_block_id
                                      /\ y.quarter_id = quarter_id}}
    IN  {c \in classroom :
            /\ c \notin occupied
            /\ (min_capacity # 0 => classroom_capacity(c) >= min_capacity)}

\* GET /classrooms/availability
get_classroom_availability(day_time_block_id, quarter_id, min_capacity) ==
    LET known == /\ day_time_block_id \in Referenced("day_time_block_id")
                 /\ quarter_id \in Referenced("quarter_id")
        response == IF known THEN Ok ELSE NotFoundException
    IN /\ reply' = Answer("get_classroom_availability", day_time_block_id,
                          quarter_id, min_capacity, response,
                          IF known
                          THEN get_available_classrooms(day_time_block_id,
                                                        quarter_id, min_capacity)
                          ELSE {})
       /\ UNCHANGED <<time_block, day_time_block, quarter, student_group,
                      instructor, classroom, autoinc, quarter_req>>
       /\ Catalogue(TRUE)

\* ------------------------------------------------------------------ inputs
ValidCands ==
    [subject : Subjects, quarter_id : Quarters, day_time_block_id : DayTimeBlocks,
     group_id : Groups, instructor_id : Instructors, classroom_id : Classrooms]

BaseCand == [subject |-> "Algebra", quarter_id |-> 1, day_time_block_id |-> 1,
             group_id |-> 1, instructor_id |-> 1, classroom_id |-> 1]

\* Candidates naming one id that does not exist.
BadCands == {[BaseCand EXCEPT ![f] = b] : f \in IdFields, b \in BadIds}

CreateInputs == ValidCands \cup BadCands

Patch(set, val) == [set |-> set, val |-> val]

\* Updates of one field, and of the instructor together with the slot or the
\* quarter.
OneFieldPatches ==
    {Patch({f}, [NoCand EXCEPT ![f] = v]) : f \in IdFields, v \in {1, 2} \cup BadIds}
    \cup {Patch({"subject"}, [NoCand EXCEPT !.subject = s]) : s \in Subjects}

TwoFieldPatches ==
    {Patch({"instructor_id", f}, [NoCand EXCEPT !.instructor_id = i, ![f] = v]) :
        f \in {"day_time_block_id", "quarter_id"}, i \in Instructors, v \in {0, 1, 2}}

UpdateInputs == {NoPatch} \cup OneFieldPatches \cup TwoFieldPatches

ScheduleIds == 1 .. MaxId

\* The inputs of the concurrent specification: one subject, one quarter,
\* updates of one resource or of the slot.
ConcCands == {c \in ValidCands : c.subject = "Algebra" /\ c.quarter_id = 1}

ConcPatches ==
    {Patch({f}, [NoCand EXCEPT ![f] = v]) :
        f \in IdFields \ {"quarter_id"}, v \in {1, 2}}
    \cup {Patch({"instructor_id"}, [NoCand EXCEPT !.instructor_id = 9])}

\* -------------------------------------------------------------------- spec
\* The steps of request r, its inputs drawn from cands and patches.
\* The class-schedule requests do not touch the instructor table; a reply
\* of an earlier read stays on record while the data it was computed from
\* is unchanged.
Step(r, cands, patches) ==
    /\ \/ \E cand \in cands : SubmitCreate(r, cand)
       \/ CheckCreate(r)
       \/ WriteCreate(r)
       \/ \E id \in ScheduleIds, patch \in patches : SubmitUpdate(r, id, patch)
       \/ CheckUpdate(r)
       \/ WriteUpdate(r)
       \/ ReadBack(r)
       \/ \E id \in ScheduleIds : SubmitDelete(r, id)
       \/ CheckDelete(r)
       \/ WriteDelete(r)
    /\ Kept(rows' = rows /\ hour_count' = hour_count)
    /\ UNCHANGED instructors
    /\ UNCHANGED catalog

\* Requests running concurrently, each in its own session.
Next == \E r \in Req : Step(r, ConcCands, ConcPatches)

Spec == Init /\ [][Next]_vars

\* Requests running one at a time, over the full input sets.
NextSeq == Step(1, CreateInputs, UpdateInputs)

SpecSeq == Init /\ [][NextSeq]_vars

\* Requests one at a time, with POST /class-schedules/validate among them.
ValPatches ==
    {Patch({f}, [NoCand EXCEPT ![f] = v]) :
        f \in {"instructor_id", "day_time_block_id", "quarter_id"}, v \in {1, 2}}

\* The candidates validated: every instructor, classroom and group in
\* slot 1 of quarter 1.
ValQueries ==
    {c \in ValidCands : /\ c.subject = "Algebra" /\ c.quarter_id = 1
                        /\ c.day_time_block_id = 1}

NextVal ==
    \/ Step(1, ValidCands, ValPatches)
    \/ Idle /\ \E cand \in ValQueries : validate_class_schedule(cand)

SpecVal == Init /\ [][NextVal]_vars

\* Requests one at a time, with the instructor endpoints among them.
Bodies ==
    {[set |-> st,
      contract_id |-> IF "contract_id" \in st THEN c ELSE NoBody.contract_id,
      email |-> IF "email" \in st THEN e ELSE NoBody.email,
      hour_count |-> IF "hour_count" \in st THEN 4200 ELSE NoBody.hour_count] :
        st \in SUBSET {"contract_id", "email", "hour_count"},
        c \in {0, 2, 3, 9}, e \in Emails}

\* Schedules of either instructor in either slot, and reassignments.
HRCands == {c \in ConcCands : c.group_id = 1 /\ c.classroom_id = 1}
HRPatches ==
    {Patch({"instructor_id"}, [NoCand EXCEPT !.instructor_id = i]) : i \in Instructors}

NextHR ==
    \/ Step(1, HRCands, HRPatches)
    \/ Idle /\ \E i \in Instructors \cup {9}, body \in Bodies : update_instructor(i, body)
    \/ Idle /\ \E i \in Instructors \cup {9} : get_instructor_workload(i)

SpecHR == Init /\ [][NextHR]_vars

\* The read-only calls as functions of the stored data: hour_count and the
\* contracts drawn from the values around every threshold, for a limit of
\* 40 hours and of 2 hours.
HourCounts == {0, 99, 100, 139, 140, 179, 180, 199, 200, 201,
               1999, 2000, 2500, 2799, 2800, 3000, 3599, 3600,
               3800, 3850, 3851, 3900, 3999, 4000, 4001, 4200}

InitPure ==
    /\ rows = {}
    /\ next_id = 1
    /\ hour_count \in {[i \in Instructors |-> IF i = 1 THEN h ELSE g] :
                        h \in HourCounts, g \in {0, 4200}}
    /\ req = [r \in Req |-> IdleReq]
    /\ instructors \in {[i \in Instructors |->
                            [contract_id |-> IF i = 1 THEN c ELSE 0,
                             email |-> IF i = 1 THEN "a@sena.edu" ELSE "b@sena.edu"]] :
                         c \in Contracts \cup {0}}
    /\ validate_reply = NoValidation
    /\ workload_reply = NoWorkload
    /\ InitCatalog

\* The candidates validated: the valid ones of quarter 1 and some that name
\* an id that is not stored.
PureQueries ==
    ConcCands \cup {[BaseCand EXCEPT ![f] = 9] :
                       f \in {"instructor_id", "day_time_block_id",
                               "group_id", "classroom_id"}}

NextPure ==
    \/ \E cand \in PureQueries : validate_class_schedule(cand)
    \/ \E i \in Instructors \cup {9} : get_instructor_workload(i)

SpecPure == InitPure /\ [][NextPure]_vars

\* No request of any kind is between its arrival and its response.
Quiet == Idle /\ quarter_req = {}

\* Time blocks and slots, one operation at a time, with class schedules of
\* instructor 1 in the stored slots.
Times == {480, 570, 600}
SlotCands == {[BaseCand EXCEPT !.day_time_block_id = d] : d \in DayTimeBlocks}
\* The unset and set fields of the bodies of PUT /time-blocks/{id}.
TimeUpdates == {<<0, 0>>, <<570, 0>>, <<570, 600>>, <<480, 600>>}
SlotPatches ==
    {Patch({"day_time_block_id"}, [NoCand EXCEPT !.day_time_block_id = d]) :
        d \in DayTimeBlocks}

NextSlots ==
    \/ Step(1, SlotCands, SlotPatches)
    \/ Quiet /\ \E start_time, end_time \in Times :
                    create_time_block(start_time, end_time)
    \/ Quiet /\ \E id \in {1, 3, 9}, times \in TimeUpdates :
                    update_time_block(id, times[1], times[2])
    \/ Quiet /\ \E id \in 1 .. MaxKey \cup {9} : delete_time_block(id)
    \/ Quiet /\ \E day_id \in {1, 9}, id \in 1 .. MaxKey \cup {9} :
                    create_day_time_block(day_id, id)
    \/ Quiet /\ \E id \in 1 .. MaxKey \cup {9} : delete_day_time_block(id)

SpecSlots == Init /\ [][NextSlots]_vars

\* Quarters, one operation at a time.
Dates == 1 .. 5

NextQuarters ==
    \/ Quiet /\ \E start_date, end_date \in Dates :
                    CheckCreateQuarter(1, start_date, end_date)
    \/ Idle /\ WriteCreateQuarter(1)
    \/ Quiet /\ \E id \in {1, 3, 9}, start_date, end_date \in Dates \cup {0} :
                    update_quarter(id, start_date, end_date)
    \/ Quiet /\ \E id \in 1 .. MaxQuarterId \cup {9} : delete_quarter(id)
    \/ Quiet /\ \E today \in Dates : get_current_quarter(today)

SpecQuarters == Init /\ [][NextQuarters]_vars

\* Quarters, the requests running side by side.
NextQuartersConc ==
    \/ \E r \in Req, start_date, end_date \in Dates :
            CheckCreateQuarter(r, start_date, end_date)
    \/ \E r \in Req : WriteCreateQuarter(r)
    \/ \E id \in 1 .. MaxQuarterId : delete_quarter(id)
    \/ \E today \in Dates : get_current_quarter(today)

SpecQuartersConc == Init /\ [][NextQuartersConc]_vars

\* Deletes of the five kinds of entity a class schedule references, one
\* operation at a time.
EntityCands ==
    {BaseCand, [subject |-> "Algebra", quarter_id |-> 2, day_time_block_id |-> 2,
                group_id |-> 2, instructor_id |-> 2, classroom_id |-> 2]}
EntityPatches == {Patch({f}, [NoCand EXCEPT ![f] = 1]) : f \in IdFields}

NextEntities ==
    \/ Step(1, EntityCands, EntityPatches)
    \/ Quiet /\ \E id \in {1, 9} : delete_day_time_block(id)
    \/ Quiet /\ \E id \in {1, 9} : delete_quarter(id)
    \/ Quiet /\ \E id \in {1, 9} : delete_student_group(id)
    \/ Quiet /\ \E id \in {1, 9} : delete_instructor(id)
    \/ Quiet /\ \E id \in {1, 9} : delete_classroom(id)

SpecEntities == Init /\ [][NextEntities]_vars

\* Student groups: disable, update and delete, one operation at a time, with
\* class schedules of groups 1 and 2.
GroupUpdates == {[set |-> st, active |-> a] : st \in {{}, {"active"}}, a \in BOOLEAN}
GroupCands == {[BaseCand EXCEPT !.group_id = g] : g \in Groups}
GroupPatches == {Patch({"group_id"}, [NoCand EXCEPT !.group_id = g]) : g \in Groups}

NextGroups ==
    \/ Step(1, GroupCands, GroupPatches)
    \/ Quiet /\ \E id \in Groups \cup {9} : disable_student_group(id)
    \/ Quiet /\ \E id \in Groups \cup {9}, group_in \in GroupUpdates :
                    update_student_group(id, group_in)
    \/ Quiet /\ \E id \in Groups \cup {9} : delete_student_group(id)

SpecGroups == Init /\ [][NextGroups]_vars

\* Classroom availability, with class schedules in both slots, quarters and
\* classrooms.
RoomCands == {c \in ValidCands : c.subject = "Algebra" /\ c.group_id = c.classroom_id
                                 /\ c.instructor_id = c.classroom_id}
RoomPatches ==
    {Patch({f}, [NoCand EXCEPT ![f] = v]) :
        f \in {"classroom_id", "day_time_block_id", "quarter_id"}, v \in {1, 2}}

NextRooms ==
    \/ Step(1, RoomCands, RoomPatches)
    \/ Quiet /\ \E d \in DayTimeBlocks \cup {9}, q \in Quarters \cup {9},
                  min_capacity \in {0, 25} :
                    get_classroom_availability(d, q, min_capacity)
    \/ Quiet /\ \E id \in Classrooms : delete_classroom(id)

SpecRooms == Init /\ [][NextRooms]_vars

\* ----------------------------------------------------------- vocabulary
\* Another row than exclude_id holds the candidate's slot and quarter and
\* its instructor, its classroom or its group.
Collides(tbl, cand, exclude_id) ==
    \E x \in tbl :
        /\ x.class_schedule_id # exclude_id
        /\ x.day_time_block_id = cand.day_time_block_id
        /\ x.quarter_id = cand.quarter_id
        /\ \/ x.instructor_id = cand.instructor_id
           \/ x.classroom_id = cand.classroom_id
           \/ x.group_id = cand.group_id

RefsExist(cand) == \A f \in IdFields : cand[f] \in Referenced(f)

RECURSIVE SumHours(_)
SumHours(S) ==
    IF S = {} THEN 0
    ELSE LET x == CHOOSE y \in S : TRUE
         IN slot_hours(x.day_time_block_id) + SumHours(S \ {x})

\* Hundredths of hours of the rows that reference instructor i.
AssignedHours(tbl, i) == SumHours({x \in tbl : x.instructor_id = i})

\* Request r takes its check step / its write step / ends in this step.
Checks(r, op) == req[r].pc = "check" /\ req[r].op = op /\ req'[r].pc # "check"
Writes(r, op) == req[r].pc = "write" /\ req[r].op = op /\ req'[r].pc # "write"
Ends(r) == req[r].pc # "idle" /\ req'[r].pc = "idle"

\* ------------------------------------------------------------------ claims
\* C1: any two distinct ClassSchedule rows with the same day_time_block_id
\* and quarter_id differ in instructor_id, in classroom_id and in group_id.
C1_Exclusivity ==
    \A x \in rows : \A y \in rows :
        (/\ x.class_schedule_id # y.class_schedule_id
         /\ x.day_time_block_id = y.day_time_block_id
         /\ x.quarter_id = y.quarter_id)
        => /\ x.instructor_id # y.instructor_id
           /\ x.classroom_id # y.classroom_id
           /\ x.group_id # y.group_id

\* Two rows share a slot and a quarter.
C1_Witness ==
    \E x \in rows : \E y \in rows :
        /\ x.class_schedule_id # y.class_schedule_id
        /\ x.day_time_block_id = y.day_time_block_id
        /\ x.quarter_id = y.quarter_id

Pending(r) ==
    IF req[r].op = "create" THEN {NewRow(req[r].cand, 0)}
    ELSE {Updated(x, req[r].patch) : x \in get(rows, req[r].id)}

BetweenCheckAndWrite(r) ==
    req[r].pc = "write" /\ req[r].op \in {"create", "update"}

\* C3 as claimed: while a request is between its conflict check and its own
\* write, no other writer's insert or update stores a row with the
\* request's slot and quarter.
C3_CheckAndWriteAtomic ==
    [][\A r \in Req :
        (BetweenCheckAndWrite(r) /\ req'[r] = req[r])
        => \A p \in Pending(r) :
             ~ \E x \in rows' \ rows :
                 /\ x.day_time_block_id = p.day_time_block_id
                 /\ x.quarter_id = p.quarter_id]_vars

\* C3 as amended: other writers can commit between a request's conflict
\* check and its write, but the request's write takes effect only if at
\* that moment no other stored row has the written row's slot and quarter
\* together with its instructor, classroom or group.
C3_WriteTakesEffectOnlyIfFree ==
    [][\A r \in Req :
        ((Writes(r, "create") \/ Writes(r, "update")) /\ rows' # rows)
        => \A x \in rows' \ rows : ~Collides(rows, x, x.class_schedule_id)]_vars

\* A request has passed its conflict check and a row that collides with
\* what it is about to write has been stored since.
C3_Witness ==
    \E r \in Req :
        /\ BetweenCheckAndWrite(r)
        /\ \E p \in Pending(r) :
               Collides(rows, p, IF req[r].op = "create" THEN 0 ELSE req[r].id)

\* C4: every instructor's hour_count equals the summed slot hours of the
\* ClassSchedule rows that reference the instructor.
C4_WorkloadConservation ==
    \A i \in Instructors : hour_count[i] = AssignedHours(rows, i)

\* An instructor holds two assignments, one in each slot.
C4_Witness ==
    \E i \in Instructors :
        /\ Cardinality({x \in rows : x.instructor_id = i}) = 2
        /\ hour_count[i] = slot_hours(1) + slot_hours(2)

\* C5: a create whose referenced ids all exist and that collides with a
\* stored row ends at its conflict check in 409 Conflict; it never reaches
\* the write, and the table is as before.
C5_CreateConflictBlocks ==
    [][\A r \in Req :
        (/\ Checks(r, "create")
         /\ RefsExist(req[r].cand)
         /\ Collides(rows, req[r].cand, 0))
        => /\ req'[r].pc = "idle"
           /\ req'[r].response.status = 409
           /\ rows' = rows
           /\ next_id' = next_id]_vars

\* A create was refused by the conflict check.
C5_Witness ==
    \E r \in Req :
        /\ req[r].op = "create"
        /\ req[r].pc = "idle"
        /\ req[r].response.code \in {Upper("instructor"), Upper("classroom"),
                                     Upper("group")}

\* C6: for a candidate whose referenced ids exist, is_valid is false exactly
\* when the conflicts list is non-empty; without a collision the validation
\* is valid, the create passes the check, inserts its row and answers 201,
\* whatever the warnings.
C6_WarningsNeverBlock ==
    [][\A r \in Req :
        /\ (Checks(r, "create") /\ RefsExist(req[r].cand))
           => LET v == validate_schedule(rows, hour_count, req[r].cand)
              IN /\ v.is_valid <=> (Len(v.conflicts) = 0)
                 /\ ~Collides(rows, req[r].cand, 0)
                      => (v.is_valid /\ req'[r].pc = "write")
        /\ (Writes(r, "create") /\ ~Collides(rows, req[r].cand, 0))
           => /\ rows' = rows \cup {NewRow(req[r].cand, next_id)}
              /\ req'[r].pc = "read"
        /\ (req[r].pc = "read" /\ req[r].op = "create" /\ req'[r] # req[r]
              /\ get(rows, req[r].id) # {})
           => req'[r].response.status = 201]_vars

\* A create has just inserted a row for which validate_schedule gave both
\* warnings: the classroom is smaller than the group and the instructor is
\* over the contract limit.
C6_Witness ==
    \E r \in Req :
        /\ req[r].op = "create"
        /\ req[r].pc = "read"
        /\ \E x \in get(rows, req[r].id) :
               /\ CapacityWarning(x) # <<>>
               /\ hour_limit(x.instructor_id) # 0
               /\ hour_count[x.instructor_id] > hour_limit(x.instructor_id) * 100

\* The operation a step of request r belongs to.
StepOp(r) == IF req[r].pc = "idle" THEN req'[r].op ELSE req[r].op

\* Hundredths of hours row x adds to the workload of instructor i.
Load(x, i) == IF x.instructor_id = i THEN slot_hours(x.day_time_block_id) ELSE 0

\* C7: a create or update changes rows and workloads in its committing
\* write only, and there it changes both: the row is stored with the
\* requested fields and the workloads move by the row's slot hours; a
\* create or update that ends in 404 or 409 has changed nothing.
C7_AllOrNothing ==
    [][\A r \in Req :
            /\ (/\ req'[r] # req[r]
                /\ StepOp(r) \in {"create", "update"}
                /\ ~(req[r].pc = "write" /\ req'[r].pc = "read"))
               => (rows' = rows /\ hour_count' = hour_count)
            /\ (Ends(r) /\ req'[r].response.status \in {404, 409})
               => (rows' = rows /\ hour_count' = hour_count)
            /\ (Writes(r, "create") /\ req'[r].pc = "read")
               => /\ rows' = rows \cup {NewRow(req[r].cand, req'[r].id)}
                  /\ get(rows, req'[r].id) = {}
                  /\ \A i \in Instructors :
                       hour_count'[i] = hour_count[i] + Load(req[r].cand, i)
            /\ (Writes(r, "update") /\ req'[r].pc = "read")
               => \E old \in rows : \E new \in rows' :
                    /\ old.class_schedule_id = req[r].id
                    /\ new.class_schedule_id = req[r].id
                    /\ rows' \ {new} = rows \ {old}
                    /\ \A f \in DOMAIN NoCand :
                         new[f] = IF f \in req[r].patch.set
                                  THEN req[r].patch.val[f] ELSE old[f]
                    /\ \A i \in Instructors :
                         hour_count'[i] = hour_count[i] - Load(old, i) + Load(new, i)]_vars

\* An update was rolled back at commit by a unique constraint.
C7_Witness ==
    \E r \in Req :
        /\ req[r].op = "update"
        /\ req[r].pc = "idle"
        /\ req[r].response.code = "DUPLICATE_RESOURCE"
        /\ rows # {}

\* The supplied fields laid over the stored row.
Overlay(stored, patch) ==
    [f \in DOMAIN NoCand |-> IF f \in patch.set THEN patch.val[f] ELSE stored[f]]

\* C8 as claimed: the conflict check of an update of a stored row ends in
\* 409 Conflict exactly when another row collides with the supplied fields
\* laid over the stored row.
C8_UpdateConflictExactly ==
    [][\A r \in Req :
        (Checks(r, "update") /\ get(rows, req[r].id) # {})
        => LET stored == First(get(rows, req[r].id))
           IN (req'[r].response.status = 409)
                <=> Collides(rows, Overlay(stored, req[r].patch), req[r].id)]_vars

\* C9: a delete of an id that is not stored ends in 404 and changes
\* nothing; a delete of a stored id passes to the write without any other
\* condition, and the write removes the row of that id and no other.
C9_DeleteExactlyThatRow ==
    [][\A r \in Req :
        /\ (Checks(r, "delete") /\ get(rows, req[r].id) = {})
           => /\ req'[r].pc = "idle"
              /\ req'[r].response.status = 404
              /\ rows' = rows /\ hour_count' = hour_count
        /\ (Checks(r, "delete") /\ get(rows, req[r].id) # {})
           => (req'[r].pc = "write" /\ rows' = rows)
        /\ (Writes(r, "delete") /\ get(rows, req[r].id) # {})
           => /\ rows' = {x \in rows : x.class_schedule_id # req[r].id}
              /\ req'[r].response.status = 200]_vars

\* A delete succeeded and another row is still stored.
C9_Witness ==
    \E r \in Req :
        /\ req[r].op = "delete"
        /\ req[r].pc = "idle"
        /\ req[r].response.status = 200
        /\ rows # {}

\* The request names an id that is not stored.
NamesMissing(r) ==
    CASE req[r].op = "create" -> ~RefsExist(req[r].cand)
      [] req[r].op = "update" ->
            \/ get(rows, req[r].id) = {}
            \/ \E f \in req[r].patch.set \cap IdFields :
                   req[r].patch.val[f] \notin Referenced(f)
      [] OTHER -> get(rows, req[r].id) = {}

\* C10 as claimed: a create, update or delete that names an id that does
\* not exist ends in 404 NotFound and stores nothing.
C10_MissingIdIsNotFound ==
    [][\A r \in Req :
        (req[r].pc \in {"check", "write"} /\ req'[r] # req[r] /\ NamesMissing(r))
        => /\ Ends(r) => req'[r].response.status = 404
           /\ req'[r].pc # "read"
           /\ rows' = rows]_vars

\* A validate call is answered in this step.
Validates == validate_reply' # validate_reply /\ validate_reply' # NoValidation

\* C11: a validate call leaves the ClassSchedule rows, the autoincrement
\* counter, every instructor's hour_count and the instructor table as they
\* were.
C11_ValidateReadOnly ==
    [][Validates => UNCHANGED <<rows, next_id, hour_count, instructors, req>>]_vars

\* A candidate was validated and found valid while rows were stored, and
\* it is not among the rows.
C11_Witness ==
    /\ validate_reply.is_valid
    /\ rows # {}
    /\ \A x \in rows : NewRow(validate_reply.cand, x.class_schedule_id) # x

\* The rows each of the three lookups of validate_schedule selects.
Matches(tbl, cand) ==
    {check_instructor_conflict(tbl, cand.instructor_id, cand.day_time_block_id,
                               cand.quarter_id, 0),
     check_classroom_conflict(tbl, cand.classroom_id, cand.day_time_block_id,
                              cand.quarter_id, 0),
     check_group_conflict(tbl, cand.group_id, cand.day_time_block_id,
                          cand.quarter_id, 0)}

\* C12: a validate call for the candidate of the reply on record, the
\* stored data being as it was for that reply, gives the same is_valid,
\* the same conflicts in the same order and the same warnings; and none of
\* the three lookups of a validate call selects two rows, so that first()
\* has no choice among rows.
C12_ValidateDeterministic ==
    [][/\ Validates
          => \A m \in Matches(rows, validate_reply'.cand) : Cardinality(m) <= 1
       /\ (/\ validate_reply # NoValidation
           /\ validate_reply' # NoValidation
           /\ validate_reply'.cand = validate_reply.cand)
          => validate_reply' = validate_reply]_vars

\* A conflicting candidate was validated against two stored rows.
C12_Witness ==
    /\ ~validate_reply.is_valid
    /\ validate_reply # NoValidation
    /\ Cardinality(rows) = 2

\* C13: when a stored row carries the fields of the candidate, as the row
\* that create_class_schedule(candidate) has just inserted does, a validate
\* call for the candidate answers is_valid = false with exactly three
\* conflicts, of type instructor, classroom and group, each naming that
\* row's id.
C13_ValidateAfterCreate ==
    [][\A x \in rows :
        (Validates /\ \A f \in IdFields : x[f] = validate_reply'.cand[f])
        => /\ ~validate_reply'.is_valid
           /\ Len(validate_reply'.conflicts) = 3
           /\ validate_reply'.conflicts[1].conflict_type = "instructor"
           /\ validate_reply'.conflicts[2].conflict_type = "classroom"
           /\ validate_reply'.conflicts[3].conflict_type = "group"
           /\ \A k \in 1 .. 3 :
                validate_reply'.conflicts[k].existing_schedule_id
                    = x.class_schedule_id]_vars

\* The create of a second row has just succeeded and the validate call for
\* its candidate has named the row, of id 2, three times.
C13_Witness ==
    /\ req[1].op = "create" /\ req[1].pc = "idle" /\ req[1].response.status = 201
    /\ Cardinality(rows) = 2
    /\ Len(validate_reply.conflicts) = 3
    /\ \E x \in rows :
          /\ x.class_schedule_id = 2
          /\ x = NewRow(validate_reply.cand, 2)
          /\ \A k \in 1 .. 3 : validate_reply.conflicts[k].existing_schedule_id = 2

\* The column of class_schedule that holds the resource of a conflict type.
Column(type) ==
    CASE type = "instructor" -> "instructor_id"
      [] type = "classroom" -> "classroom_id"
      [] type = "group" -> "group_id"

ConflictTypes == <<"instructor", "classroom", "group">>

\* The rows other than exclude_id that hold the candidate's slot and quarter
\* and the candidate's resource of this type.
Hits(tbl, cand, type, exclude_id) ==
    {x \in tbl : /\ x.class_schedule_id # exclude_id
                 /\ x.day_time_block_id = cand.day_time_block_id
                 /\ x.quarter_id = cand.quarter_id
                 /\ x[Column(type)] = cand[Column(type)]}

\* C14: the conflicts of a validate call hold an entry of a type exactly
\* when a stored row has the candidate's slot, quarter and resource of that
\* type, whatever the other two lookups found; rows of another slot or
\* another quarter give no entry.
C14_AllLookupsRun ==
    [][Validates =>
        \A k \in 1 .. 3 :
            (\E j \in 1 .. Len(validate_reply'.conflicts) :
                validate_reply'.conflicts[j].conflict_type = ConflictTypes[k])
            <=> Hits(rows, validate_reply'.cand, ConflictTypes[k], 0) # {}]_vars

\* A validate call answered with the classroom and the group conflict and
\* no instructor conflict, while the candidate's instructor is booked in
\* its slot in another quarter.
C14_Witness ==
    /\ Len(validate_reply.conflicts) = 2
    /\ validate_reply.conflicts[1].conflict_type = "classroom"
    /\ validate_reply.conflicts[2].conflict_type = "group"
    /\ \E x \in rows :
          /\ x.instructor_id = validate_reply.cand.instructor_id
          /\ x.day_time_block_id = validate_reply.cand.day_time_block_id
          /\ x.quarter_id # validate_reply.cand.quarter_id

\* The first type, in the order instructor, classroom, group, on which the
\* candidate collides with a row other than exclude_id.
FirstHit(tbl, cand, exclude_id) ==
    CHOOSE k \in 1 .. 3 :
        /\ Hits(tbl, cand, ConflictTypes[k], exclude_id) # {}
        /\ \A j \in 1 .. (k - 1) : Hits(tbl, cand, ConflictTypes[j], exclude_id) = {}

\* The Conflict error that names the candidate's first collision.
NamesFirst(response, tbl, cand, exclude_id) ==
    LET k == FirstHit(tbl, cand, exclude_id)
    IN /\ response.status = 409
       /\ response.code = Upper(ConflictTypes[k])
       /\ \E x \in Hits(tbl, cand, ConflictTypes[k], exclude_id) :
              response.detail = x.subject

\* C15: the conflicts of a validate call come in the order instructor,
\* classroom, group, and the 409 of a create or an update that collides
\* carries the type of the first collision in that order and the subject of
\* the stored row it collides with.
C15_FirstConflictNamed ==
    [][/\ Validates =>
            \A j \in 1 .. Len(validate_reply'.conflicts) :
                \A k \in 1 .. (j - 1) :
                    \E a \in 1 .. 3 : \E b \in (a + 1) .. 3 :
                        /\ validate_reply'.conflicts[k].conflict_type = ConflictTypes[a]
                        /\ validate_reply'.conflicts[j].conflict_type = ConflictTypes[b]
       /\ \A r \in Req :
            /\ (/\ Checks(r, "create") /\ RefsExist(req[r].cand)
                /\ Collides(rows, req[r].cand, 0))
               => NamesFirst(req'[r].response, rows, req[r].cand, 0)
            /\ (/\ Checks(r, "update") /\ get(rows, req[r].id) # {}
                /\ req[r].patch.set \cap IdFields # {}
                /\ Collides(rows, Overlay(First(get(rows, req[r].id)), req[r].patch),
                            req[r].id))
               => NamesFirst(req'[r].response, rows,
                             Overlay(First(get(rows, req[r].id)), req[r].patch),
                             req[r].id)]_vars

\* An update was refused with a classroom conflict that names the Geometry
\* class of the other row, although its group collides as well.
C15_Witness ==
    /\ req[1].op = "update" /\ req[1].pc = "idle"
    /\ req[1].response.code = Upper("classroom")
    /\ req[1].response.detail = "Geometry"
    /\ \E x \in rows : \E y \in rows :
          /\ x.class_schedule_id # y.class_schedule_id
          /\ x.group_id = y.group_id
          /\ x.classroom_id = y.classroom_id
          /\ x.instructor_id # y.instructor_id
          /\ y.subject = "Geometry" /\ x.subject = "Algebra"

\* C16: a workload reply carries NO_LIMIT when the instructor has no
\* contract hour limit; otherwise, with u = 100 * hour_count / limit, it
\* carries OVERLOADED for u >= 100, NEAR_LIMIT for 90 <= u < 100, HIGH_LOAD
\* for 70 <= u < 90, MEDIUM_LOAD for 50 <= u < 70 and LOW_LOAD for u < 50
\* (total_hours is in hundredths of an hour, so u = total_hours / limit).
C16_StatusThresholds ==
    workload_reply.status = 200 =>
        LET h == workload_reply.total_hours
            l == workload_reply.contract_limit
            st == workload_reply.workload_status
        IN /\ st \in {"NO_LIMIT", "OVERLOADED", "NEAR_LIMIT", "HIGH_LOAD",
                      "MEDIUM_LOAD", "LOW_LOAD"}
           /\ (st = "NO_LIMIT") <=> (l = 0)
           /\ l # 0 =>
                /\ (st = "OVERLOADED") <=> (h >= 100 * l)
                /\ (st = "NEAR_LIMIT") <=> (90 * l <= h /\ h < 100 * l)
                /\ (st = "HIGH_LOAD") <=> (70 * l <= h /\ h < 90 * l)
                /\ (st = "MEDIUM_LOAD") <=> (50 * l <= h /\ h < 70 * l)
                /\ (st = "LOW_LOAD") <=> (h < 50 * l)
           /\ l = 40 =>
                /\ h = 4200 => st = "OVERLOADED"
                /\ h \in {3900, 3800} => st = "NEAR_LIMIT"
                /\ h = 3000 => st = "HIGH_LOAD"
                /\ h \in {2500, 2000} => st = "MEDIUM_LOAD"
                /\ h = 0 => st = "LOW_LOAD"

\* The workload of an instructor at exactly 90 % of a limit of 40 hours
\* was asked for.
C16_Witness ==
    /\ workload_reply.status = 200
    /\ workload_reply.contract_limit = 40
    /\ workload_reply.total_hours = 3600
    /\ workload_reply.workload_status = "NEAR_LIMIT"

\* The warnings of the validate reply on record include w.
Warns(w) ==
    \E k \in 1 .. Len(validate_reply.warnings) : validate_reply.warnings[k] = w

\* C17: the validate reply carries the overload warning exactly when the
\* candidate's instructor has a contract with an hour limit and hour_count
\* plus the hours of the candidate's slot is strictly greater than the
\* limit; 39 + 2 against 40 warns, 38 + 2 against 40 does not.
C17_OverloadWarning ==
    validate_reply # NoValidation =>
        LET c == validate_reply.cand
            i == c.instructor_id
        IN /\ Warns("overload") <=>
                /\ i \in Instructors
                /\ instructors[i].contract_id \in Contracts
                /\ contract_hour_limit(instructors[i].contract_id) > 0
                /\ c.day_time_block_id \in DayTimeBlocks
                /\ 3 * hour_count[i] + 5 * duration_minutes(c.day_time_block_id)
                     > 300 * contract_hour_limit(instructors[i].contract_id)
           /\ (/\ i = 1 /\ instructors[1].contract_id = 2
               /\ c.day_time_block_id = 1)
              => /\ hour_count[1] = 3900 => Warns("overload")
                 /\ hour_count[1] = 3800 => ~Warns("overload")

\* A candidate of an instructor with 38 of 40 hours in the two-hour slot
\* was validated and drew no overload warning.
C17_Witness ==
    /\ validate_reply # NoValidation
    /\ validate_reply.cand.instructor_id = 1
    /\ validate_reply.cand.day_time_block_id = 1
    /\ instructors[1].contract_id = 2
    /\ hour_count[1] = 3800
    /\ ~Warns("overload")

\* C18: the validate reply carries the capacity warning exactly when the
\* candidate's classroom and group both exist and the classroom's capacity
\* is strictly less than the group's; a classroom of 30 with a group of 25
\* draws none.
C18_CapacityWarning ==
    validate_reply # NoValidation =>
        LET c == validate_reply.cand
        IN /\ Warns("capacity") <=>
                /\ c.classroom_id \in Classrooms
                /\ c.group_id \in Groups
                /\ classroom_capacity(c.classroom_id) < group_capacity(c.group_id)
           /\ (/\ c.classroom_id \in Classrooms /\ c.group_id \in Groups
               /\ classroom_capacity(c.classroom_id) = 30
               /\ group_capacity(c.group_id) = 25)
              => ~Warns("capacity")

\* A candidate whose classroom holds exactly as many as its group was
\* validated and drew no capacity warning.
C18_Witness ==
    /\ validate_reply # NoValidation
    /\ validate_reply.cand.classroom_id = 2
    /\ validate_reply.cand.group_id = 2
    /\ ~Warns("capacity")

\* C19: a successful update leaves the row with the instructor it was given;
\* when the instructor changes, the previous instructor's hour_count goes
\* down by the hours of the old slot and the new instructor's goes up by
\* the hours of the new slot; when the instructor stays, that instructor's
\* hour_count moves by the new slot's hours minus the old slot's; every
\* other instructor's hour_count stays.
C19_ReassignTransfersLoad ==
    [][\A r \in Req :
        (Writes(r, "update") /\ req'[r].pc = "read")
        => \E old \in get(rows, req[r].id) : \E new \in get(rows', req[r].id) :
             /\ "instructor_id" \in req[r].patch.set
                  => new.instructor_id = req[r].patch.val.instructor_id
             /\ "instructor_id" \notin req[r].patch.set
                  => new.instructor_id = old.instructor_id
             /\ IF new.instructor_id # old.instructor_id
                THEN /\ hour_count'[old.instructor_id] =
                            hour_count[old.instructor_id]
                                - slot_hours(old.day_time_block_id)
                     /\ hour_count'[new.instructor_id] =
                            hour_count[new.instructor_id]
                                + slot_hours(new.day_time_block_id)
                ELSE hour_count'[new.instructor_id] =
                        hour_count[new.instructor_id]
                            + slot_hours(new.day_time_block_id)
                            - slot_hours(old.day_time_block_id)
             /\ \A i \in Instructors \ {old.instructor_id, new.instructor_id} :
                    hour_count'[i] = hour_count[i]]_vars

\* An update has moved the only row to instructor 2, and with it the hours,
\* while another update of that row, which found another instructor on it
\* at its check, waits to write.
C19_Witness ==
    \E r \in Req : \E q \in Req \ {r} :
        /\ req[r].op = "update" /\ req[r].pc = "read"
        /\ req[q].op = "update" /\ req[q].pc = "write" /\ req[q].id = req[r].id
        /\ req[q].patch.set = {"instructor_id"}
        /\ req[q].patch.val.instructor_id = 2
        /\ Cardinality(rows) = 1
        /\ \E x \in get(rows, req[r].id) :
              /\ x.instructor_id = 2
              /\ hour_count[2] = slot_hours(x.day_time_block_id)
              /\ hour_count[1] = 0

\* C20: hour_count changes only in the write of a class-schedule create,
\* update or delete; an update_instructor that changes the instructor row,
\* whatever keys its body carries, leaves every hour_count as it was.
C20_HourCountOnlyBySchedules ==
    [][/\ hour_count' # hour_count
          => \E r \in Req :
                /\ Writes(r, "create") \/ Writes(r, "update") \/ Writes(r, "delete")
                /\ rows' # rows
       /\ instructors' # instructors => hour_count' = hour_count]_vars

\* Instructor 1, with both slots assigned, has been given another contract
\* and another address.
C20_Witness ==
    /\ instructors[1].contract_id = 3
    /\ instructors[1].email = "c@sena.edu"
    /\ hour_count[1] = slot_hours(1) + slot_hours(2)

\* The catalogue operation op answers in this step.
Answers(op) == reply' # reply /\ reply'.op = op

\* A class schedule references the entity id through its column f.
InUse(f, id) == \E x \in rows : x[f] = id

\* C21: delete_day_time_block and delete_quarter of a stored slot or quarter
\* answer 400 and leave it stored when a class schedule references it, and
\* remove it (and nothing else) otherwise.
C21_DeleteBlockedByDependents ==
    [][/\ (Answers("delete_day_time_block")
             /\ reply'.a \in Referenced("day_time_block_id")) =>
            IF InUse("day_time_block_id", reply'.a)
            THEN reply'.status = 400 /\ day_time_block' = day_time_block
            ELSE /\ reply'.status = 200
                 /\ day_time_block' =
                      {s \in day_time_block : s.day_time_block_id # reply'.a}
       /\ (Answers("delete_quarter") /\ reply'.a \in Referenced("quarter_id")) =>
            IF InUse("quarter_id", reply'.a)
            THEN reply'.status = 400 /\ quarter' = quarter
            ELSE /\ reply'.status = 200
                 /\ quarter' = {q \in quarter : q.quarter_id # reply'.a}]_vars

\* Slot 1 was deleted while no class schedule used it; the delete of quarter 1
\* was refused, a class schedule of slot 2 being in that quarter.
C21_Witness ==
    /\ reply.op = "delete_quarter" /\ reply.a = 1 /\ reply.status = 400
    /\ 1 \in Referenced("quarter_id")
    /\ \E x \in rows : x.quarter_id = 1 /\ x.day_time_block_id = 2
    /\ 1 \notin Referenced("day_time_block_id")

\* The delete operation of the table that column f of class_schedule references.
DeleteOf(f) ==
    CASE f = "quarter_id" -> "delete_quarter"
      [] f = "day_time_block_id" -> "delete_day_time_block"
      [] f = "group_id" -> "delete_student_group"
      [] f = "instructor_id" -> "delete_instructor"
      [] f = "classroom_id" -> "delete_classroom"

\* The rows of all five referenced tables.
Entities == [f \in IdFields |-> Referenced(f)]

\* C28: with operations running one at a time, every class schedule
\* references a stored quarter, slot, student group, instructor and
\* classroom; a delete of one of these that a class schedule references
\* answers 400 and removes nothing, and a row enters the table or changes
\* only with all five of its references stored.
C28_ReferentialIntegrity ==
    /\ [](\A x \in rows : RefsExist(x))
    /\ [][/\ \A f \in IdFields :
                (Answers(DeleteOf(f)) /\ InUse(f, reply'.a)) =>
                    reply'.status = 400 /\ Entities' = Entities
          /\ \A x \in rows' \ rows : RefsExist(x)]_vars

\* Classroom 1 was deleted while unused; the delete of instructor 1 was
\* refused, a class schedule in classroom 2 being assigned to that instructor.
C28_Witness ==
    /\ reply.op = "delete_instructor" /\ reply.a = 1 /\ reply.status = 400
    /\ 1 \in instructor
    /\ 1 \notin classroom
    /\ \E x \in rows : x.instructor_id = 1 /\ x.classroom_id = 2

\* The stored student group with this id is active.
Active(tbl, group_id) == \E g \in tbl : g.group_id = group_id /\ g.active

\* disable_student_group of a stored group disables exactly an active group
\* without class schedules and answers 400 otherwise.
DisableGuarded ==
    (Answers("disable_student_group") /\ reply'.a \in Referenced("group_id")) =>
        IF Active(student_group, reply'.a) /\ ~InUse("group_id", reply'.a)
        THEN /\ reply'.status = 200
             /\ student_group' =
                  {IF g.group_id = reply'.a THEN [g EXCEPT !.active = FALSE]
                   ELSE g : g \in student_group}
        ELSE reply'.status = 400 /\ student_group' = student_group

\* C27: disable_student_group sets active to false only for an active group
\* without class schedules and answers 400 otherwise, and no operation makes
\* a disabled group active again.
C27_DisableIsOneWay ==
    [][/\ DisableGuarded
       /\ \A g \in student_group :
            ~g.active => ~Active(student_group', g.group_id)]_vars

\* The stored classrooms for which check_classroom_conflict finds no row in
\* this slot and quarter.
Free(d, q) == {c \in classroom : check_classroom_conflict(rows, c, d, q, 0) = {}}

\* C30: for every slot and quarter, get_available_classrooms without a
\* capacity filter returns exactly the stored classrooms for which
\* check_classroom_conflict finds no row, and that is the list
\* GET /classrooms/availability answers with.
C30_AvailabilityAgreesWithConflicts ==
    /\ [](\A d \in DayTimeBlocks \cup BadIds, q \in Quarters \cup BadIds :
            get_available_classrooms(d, q, 0) = Free(d, q))
    /\ [][(/\ Answers("get_classroom_availability")
           /\ reply'.status = 200 /\ reply'.c = 0) =>
              reply'.result = Free(reply'.a, reply'.b)]_vars

\* Slot 1 of quarter 1 is asked for: classroom 1 holds a class there, and
\* classroom 2, which holds one in slot 1 of quarter 2, is the one listed.
C30_Witness ==
    /\ reply.op = "get_classroom_availability" /\ reply.status = 200
    /\ reply.a = 1 /\ reply.b = 1 /\ reply.c = 0
    /\ reply.result = {2}
    /\ classroom = Classrooms
    /\ \E x \in rows : x.classroom_id = 1 /\ x.day_time_block_id = 1 /\ x.quarter_id = 1
    /\ \E x \in rows : x.classroom_id = 2 /\ x.day_time_block_id = 1 /\ x.quarter_id = 2

\* The ids of the stored time blocks.
TimeBlockIds == {b.time_block_id : b \in time_block}

\* C22: create_day_time_block answers 404 when the day or the time block is
\* not stored, 409 when a slot of that day and time block is stored, and
\* stores the slot otherwise; no two stored slots have the same day and time
\* block.
C22_SlotPairsUnique ==
    /\ [](\A s \in day_time_block : \A t \in day_time_block :
            (s.day_id = t.day_id /\ s.time_block_id = t.time_block_id) => s = t)
    /\ [][Answers("create_day_time_block") =>
            IF reply'.a \notin Days \/ reply'.b \notin TimeBlockIds
            THEN reply'.status = 404 /\ day_time_block' = day_time_block
            ELSE IF \E s \in day_time_block :
                        s.day_id = reply'.a /\ s.time_block_id = reply'.b
            THEN reply'.status = 409 /\ day_time_block' = day_time_block
            ELSE /\ reply'.status = 201
                 /\ day_time_block' = day_time_block \cup
                        {[day_time_block_id |-> autoinc.day_time_block,
                          day_id |-> reply'.a, time_block_id |-> reply'.b]}]_vars

\* Slot 1 was deleted and the slot of day 1 and time block 1 created again,
\* as slot 3; a second create of that pair answered 409.
C22_Witness ==
    /\ reply.op = "create_day_time_block" /\ reply.a = 1 /\ reply.b = 1
    /\ reply.status = 409
    /\ [day_time_block_id |-> 3, day_id |-> 1, time_block_id |-> 1] \in day_time_block
    /\ 1 \notin Referenced("day_time_block_id")

\* The stored slot d and its time block.
Slot(d) == CHOOSE s \in day_time_block : s.day_time_block_id = d
Block(d) == CHOOSE b \in time_block : b.time_block_id = Slot(d).time_block_id

\* Two clock ranges share some time.
Overlap(a, b) == a.start_time < b.end_time /\ b.start_time < a.end_time

\* The stored slots d and e are different slots of the same day whose clock
\* ranges overlap.
ClockOverlap(d, e) ==
    /\ d # e
    /\ Slot(d).day_id = Slot(e).day_id
    /\ Overlap(Block(d), Block(e))

\* The candidate is in another slot than a stored class schedule of its
\* quarter and its instructor, classroom or group, the two slots overlapping
\* in clock time, and it collides with no stored class schedule.
OverlapsOnly(cand) ==
    /\ RefsExist(cand)
    /\ ~Collides(rows, cand, 0)
    /\ \E x \in rows :
          /\ x.quarter_id = cand.quarter_id
          /\ \/ x.instructor_id = cand.instructor_id
             \/ x.classroom_id = cand.classroom_id
             \/ x.group_id = cand.group_id
          /\ ClockOverlap(x.day_time_block_id, cand.day_time_block_id)

\* C24: a time block with start before end and not identical to a stored one
\* is created although its clock range overlaps a stored time block, and a
\* class schedule whose slot overlaps in clock time the slot of a stored class
\* schedule of the same quarter and instructor, classroom or group passes the
\* conflict check and is stored.
C24_ConflictSpaceIsSlots ==
    [][/\ (/\ Answers("create_time_block")
           /\ reply'.a < reply'.b
           /\ get_by_times(reply'.a, reply'.b) = {}
           /\ \E b \in time_block :
                 Overlap(b, [start_time |-> reply'.a, end_time |-> reply'.b])) =>
             /\ reply'.status = 201
             /\ time_block' = time_block \cup
                   {[time_block_id |-> autoinc.time_block,
                     start_time |-> reply'.a, end_time |-> reply'.b]}
       /\ \A r \in Req :
            /\ (Checks(r, "create") /\ OverlapsOnly(req[r].cand)) =>
                   req'[r].pc = "write"
            /\ (Writes(r, "create") /\ OverlapsOnly(req[r].cand)) =>
                   rows' = rows \cup {NewRow(req[r].cand, next_id)}]_vars

\* Time block 3, 08:00-09:30, was created beside time block 1, 08:00-10:00;
\* the class schedules 1 and 2 have the same quarter, instructor, classroom
\* and group and are in slots 1 and 2, which overlap from 09:30 to 10:00.
C24_Witness ==
    /\ reply.op = "create_time_block" /\ reply.status = 201
    /\ [time_block_id |-> 3, start_time |-> 480, end_time |-> 570] \in time_block
    /\ [time_block_id |-> 1, start_time |-> 480, end_time |-> 600] \in time_block
    /\ \E x \in rows : \E y \in rows :
          /\ x.day_time_block_id = 1 /\ y.day_time_block_id = 2
          /\ x.quarter_id = y.quarter_id /\ x.instructor_id = y.instructor_id
          /\ ClockOverlap(1, 2)

\* The clock range and the duration of the stored slot d.
SlotTimes(d) == <<Block(d).start_time, Block(d).end_time, duration_minutes(d)>>

\* C29: update_time_block and delete_time_block of a time block that a slot
\* references answer 400 and change nothing; the clock range and the duration
\* of the slot of a class schedule stay as they are while the class schedule
\* is stored in that slot.
C29_SlotTimesConstant ==
    [][/\ (/\ Answers("update_time_block") \/ Answers("delete_time_block")
           /\ get_day_time_blocks_count(reply'.a) > 0) =>
             /\ reply'.status = 400
             /\ time_block' = time_block /\ day_time_block' = day_time_block
       /\ \A x \in rows : \A y \in rows' :
            (/\ y.class_schedule_id = x.class_schedule_id
             /\ y.day_time_block_id = x.day_time_block_id) =>
                SlotTimes(x.day_time_block_id)' = SlotTimes(x.day_time_block_id)]_vars

\* The update of time block 1 was refused, slot 1 referencing it and a class
\* schedule being in slot 1; time block 3, which no slot references, is
\* stored as 09:30-10:00.
C29_Witness ==
    /\ reply.op = "update_time_block" /\ reply.a = 1 /\ reply.status = 400
    /\ reply.code = "TIME_BLOCK_IN_USE"
    /\ \E x \in rows : x.day_time_block_id = 1
    /\ Slot(1).time_block_id = 1
    /\ [time_block_id |-> 3, start_time |-> 570, end_time |-> 600] \in time_block

\* The date ranges of two quarters have a date in common.
Intersects(p, q) == p.start_date <= q.end_date /\ q.start_date <= p.end_date

Range(start_date, end_date) == [start_date |-> start_date, end_date |-> end_date]

\* Every stored quarter starts before it ends, and no two stored quarters
\* have intersecting date ranges.
QuartersDisjoint ==
    /\ \A q \in quarter : q.start_date < q.end_date
    /\ \A p \in quarter : \A q \in quarter :
          p.quarter_id # q.quarter_id => ~Intersects(p, q)

\* A POST /quarters whose range is in order answers 409 and adds nothing when
\* the range equals or intersects that of a stored quarter, and stores the
\* quarter otherwise.
CreateQuarterChecked ==
    (Answers("create_quarter") /\ reply'.a < reply'.b) =>
        IF \E q \in quarter : Intersects(q, Range(reply'.a, reply'.b))
        THEN reply'.status = 409 /\ quarter' = quarter
        ELSE /\ reply'.status = 201
             /\ quarter' = quarter \cup
                   {[quarter_id |-> autoinc.quarter, start_date |-> reply'.a,
                     end_date |-> reply'.b]}

\* update_quarter of a stored quarter answers 400 when the merged range is not
\* in order, 409 when the body sets a date and the merged range intersects
\* that of another quarter, and stores the merged range otherwise.
UpdateQuarterChecked ==
    (Answers("update_quarter") /\ reply'.a \in Referenced("quarter_id")) =>
        LET old == CHOOSE q \in quarter : q.quarter_id = reply'.a
            new == [old EXCEPT !.start_date = Get(reply'.b, @),
                               !.end_date = Get(reply'.c, @)]
        IN  IF new.end_date <= new.start_date
            THEN reply'.status = 400 /\ quarter' = quarter
            ELSE IF /\ new # old
                    /\ \E q \in quarter \ {old} : Intersects(q, new)
            THEN reply'.status = 409 /\ quarter' = quarter
            ELSE reply'.status = 200 /\ quarter' = (quarter \ {old}) \cup {new}

C25_OverlapIsTwoSided ==
    \A s \in Dates : \A e \in Dates :
        (s < e /\ \A q \in quarter : q.start_date < q.end_date) =>
            \A exclude_id \in 0 .. MaxQuarterId :
                get_overlapping_quarters(s, e, exclude_id) =
                    {q \in quarter : /\ q.quarter_id # exclude_id
                                     /\ q.start_date <= e
                                     /\ s <= q.end_date}

\* A POST /quarters was refused with QUARTER_OVERLAP for a range that starts
\* on the last date of a stored quarter and meets no other stored quarter.
C25_Witness ==
    /\ reply.op = "create_quarter" /\ reply.code = "QUARTER_OVERLAP"
    /\ \E q \in quarter :
          /\ q.end_date = reply.a
          /\ get_overlapping_quarters(reply.a, reply.b, q.quarter_id) = {}
          /\ get_overlapping_quarters(reply.a, reply.b, 0) = {q}

\* The stored quarters whose range contains the date.
Current(today) == {q \in quarter : q.start_date <= today /\ today <= q.end_date}

\* C26: the insert of a POST /quarters that passed its checks stores the
\* quarter whatever has been stored since, unless a quarter of the same two
\* dates is stored (409); the stored quarters may then intersect, and
\* get_current_quarter answers with any one of the stored quarters that
\* contain today.
C26_OverlapRuleAdvisory ==
    [][/\ \A p \in quarter_req \ quarter_req' :
            IF get_by_dates(p.start_date, p.end_date) = {}
            THEN quarter' = quarter \cup
                    {[quarter_id |-> autoinc.quarter, start_date |-> p.start_date,
                      end_date |-> p.end_date]}
            ELSE quarter' = quarter /\ reply'.status = 409
       /\ Answers("get_current_quarter") =>
            reply'.result \in (IF Current(reply'.a) = {} THEN {{}}
                               ELSE {{q.quarter_id} : q \in Current(reply'.a)})]_vars

\* Two stored quarters of different ranges both contain today, and
\* get_current_quarter answered with the one that was stored later.
C26_Witness ==
    /\ reply.op = "get_current_quarter"
    /\ \E p \in quarter : \E q \in quarter :
          /\ p.quarter_id < q.quarter_id
          /\ Intersects(p, q)
          /\ {p, q} \subseteq Current(reply.a)
          /\ reply.result = {q.quarter_id}

====
